---------------------------- MODULE Spec2Model ----------------------------
(***************************************************************************)
(* The generic query pipeline of the admin API (FilterService): filter     *)
(* strings are split and translated into scan conditions, the store scans  *)
(* the table, the result is sorted in memory and sliced into a page.       *)
(*                                                                         *)
(* Strings are sequences of tokens.  A token is one character ("a", "1",   *)
(* ",", "%") or an indivisible word that the code only ever handles as a   *)
(* whole (a field name, an operator name, the delimiter "||", a sort       *)
(* direction, the literal "true").                                         *)
(***************************************************************************)
EXTENDS Integers, Sequences, FiniteSets, TLC

(***************************************************************************)
(* Bounds of the model.                                                    *)
(***************************************************************************)
MaxRecords == 2
MaxFilters == 2
MaxPage == 2
MaxLimit == 2
MaxSortLen == 5
MaxPageLen == 6
MaxPageLimit == 4
MaxPageNo == 5
MaxFilterRecords == 2
MaxConds == 2
MaxRegs == 2
MaxUsers == 2
MaxCalls == 2
MaxCreated == 2
MaxInflight == 2
MaxRedirects == 4
MaxPagesBack == 3

(***************************************************************************)
(* JavaScript values.  Every value has the same shape so that any two can  *)
(* be compared: t is the runtime type, n the number (or the day ordinal of *)
(* a Date, or 0/1 of a boolean), s the string.                             *)
(***************************************************************************)
Null == [t |-> "null", n |-> 0, s |-> <<>>]
Num(k) == [t |-> "num", n |-> k, s |-> <<>>]
Str(x) == [t |-> "str", n |-> 0, s |-> x]
DateV(k) == [t |-> "date", n |-> k, s |-> <<>>]
Bool(b) == [t |-> "bool", n |-> IF b THEN 1 ELSE 0, s |-> <<>>]
NaN == [t |-> "nan", n |-> 0, s |-> <<>>]
InvalidDate == [t |-> "invalidDate", n |-> 0, s |-> <<>>]
UndefinedV == [t |-> "undefined", n |-> 0, s |-> <<>>]

\* The value of a destructured part that the split did not produce.
Undefined == <<"<undefined>">>

Digits == <<"0", "1", "2", "3", "4", "5", "6", "7", "8", "9">>
IsDigit(c) == \E i \in 1..10 : Digits[i] = c
DigitVal(c) == (CHOOSE i \in 1..10 : Digits[i] = c) - 1

AllDigits(x) == \A i \in 1..Len(x) : IsDigit(x[i])

RECURSIVE DigitsToNat(_)
DigitsToNat(x) ==
  IF x = <<>> THEN 0
  ELSE 10 * DigitsToNat(SubSeq(x, 1, Len(x) - 1)) + DigitVal(x[Len(x)])

RECURSIVE NatToDigits(_)
NatToDigits(k) ==
  IF k < 10 THEN <<Digits[k + 1]>>
  ELSE Append(NatToDigits(k \div 10), Digits[(k % 10) + 1])

\* Number(value) on a string of the alphabet: digits give the integer, the
\* empty string gives 0, undefined and anything else give NaN.
ToNumber(x) ==
  IF x = Undefined THEN NaN
  ELSE IF AllDigits(x) THEN Num(DigitsToNat(x))
  ELSE NaN

\* new Date(value) on "YYYY-MM-DD": the day ordinal; anything else is an
\* Invalid Date.
IsIsoDate(x) ==
  /\ Len(x) = 10
  /\ x[5] = "-" /\ x[8] = "-"
  /\ \A i \in {1, 2, 3, 4, 6, 7, 9, 10} : IsDigit(x[i])

DayOrdinal(x) ==
  (DigitsToNat(SubSeq(x, 1, 4)) * 12 + DigitsToNat(SubSeq(x, 6, 7))) * 31
    + DigitsToNat(SubSeq(x, 9, 10))

ToDate(x) ==
  IF x # Undefined /\ IsIsoDate(x) THEN DateV(DayOrdinal(x)) ELSE InvalidDate

\* toLowerCase / toUpperCase, token by token.
LowerTok(c) ==
  CASE c = "A" -> "a" [] c = "B" -> "b"
    [] c \in {"TRUE", "True"} -> "true"
    [] c \in {"DESC", "Desc"} -> "desc"
    [] c = "ASC" -> "asc"
    [] OTHER -> c

UpperTok(c) ==
  CASE c = "a" -> "A" [] c = "b" -> "B"
    [] c \in {"true", "True"} -> "TRUE"
    [] c \in {"desc", "Desc"} -> "DESC"
    [] c = "asc" -> "ASC"
    [] OTHER -> c

toLowerCase(x) == [i \in 1..Len(x) |-> LowerTok(x[i])]
\* A variant that leaves the string as it is.
toUpperCaseAsIs(x) == x
toUpperCase(x) == [i \in 1..Len(x) |-> UpperTok(x[i])]

\* String(value) of a runtime value (a Date prints as text that starts
\* with a letter; the sorted columns of the model never mix dates with
\* other types).
StringOf(v) ==
  CASE v.t = "str" -> v.s
    [] v.t = "num" -> NatToDigits(v.n)
    [] v.t = "bool" -> IF v.n = 1 THEN <<"true">> ELSE <<"false">>
    [] v.t = "date" -> <<"D">> \o NatToDigits(v.n)
    [] OTHER -> <<v.t>>

(***************************************************************************)
(* String.prototype.localeCompare under the root collation: the primary    *)
(* weights (punctuation < digits < letters, letters without case) are      *)
(* compared over the whole string first; only when they are all equal does *)
(* case decide, lower case first.                                          *)
(***************************************************************************)
Primary(c) ==
  CASE c = "," -> 1 [] c = "-" -> 2 [] c = "%" -> 3 [] c = "|" -> 4
    [] IsDigit(c) -> 10 + DigitVal(c)
    [] c \in {"a", "A"} -> 30
    [] c \in {"b", "B"} -> 31
    [] c = "D" -> 33
    [] c = "false" -> 35
    [] c \in {"true", "True", "TRUE"} -> 40
    [] OTHER -> 50

IsUpper(c) == c \in {"A", "B", "D", "True", "TRUE"}

RECURSIVE LexCompare(_, _, _)
\* Lexicographic comparison of two weight sequences: -1, 0 or 1.
LexCompare(x, y, i) ==
  IF i > Len(x) /\ i > Len(y) THEN 0
  ELSE IF i > Len(x) THEN -1
  ELSE IF i > Len(y) THEN 1
  ELSE IF x[i] < y[i] THEN -1
  ELSE IF x[i] > y[i] THEN 1
  ELSE LexCompare(x, y, i + 1)

localeCompare(x, y) ==
  LET px == [i \in 1..Len(x) |-> Primary(x[i])]
      py == [i \in 1..Len(y) |-> Primary(y[i])]
      cx == [i \in 1..Len(x) |-> IF IsUpper(x[i]) THEN 1 ELSE 0]
      cy == [i \in 1..Len(y) |-> IF IsUpper(y[i]) THEN 1 ELSE 0]
      p == LexCompare(px, py, 1)
  IN IF p # 0 THEN p ELSE LexCompare(cx, cy, 1)

(***************************************************************************)
(* String.prototype.split on a one-token delimiter: the parts between the  *)
(* delimiters, in order (always at least one part).                        *)
(***************************************************************************)
RECURSIVE SplitFrom(_, _, _, _)
SplitFrom(x, delim, i, cur) ==
  IF i > Len(x) THEN <<cur>>
  ELSE IF x[i] = delim THEN <<cur>> \o SplitFrom(x, delim, i + 1, <<>>)
  ELSE SplitFrom(x, delim, i + 1, Append(cur, x[i]))

Split(x, delim) == SplitFrom(x, delim, 1, <<>>)

\* Array destructuring: the i-th part, undefined when the split gave fewer.
Part(parts, i) == IF i <= Len(parts) THEN parts[i] ELSE Undefined

\* a[key]: the value of a record's property; a missing property reads as
\* undefined, which the pipeline never tells apart from null.
GetField(rec, key) ==
  IF Len(key) = 1 /\ key[1] \in DOMAIN rec THEN rec[key[1]] ELSE Null

IsNullish(v) == v.t = "null"

(***************************************************************************)
(* applySorting: the comparator handed to Array.prototype.sort.            *)
(***************************************************************************)
\* The comparator on two values that are both present.
compareNonNull(aValue, bValue, isDesc) ==
  IF aValue.t = "str" /\ bValue.t = "str"
    THEN IF isDesc THEN localeCompare(bValue.s, aValue.s)
                   ELSE localeCompare(aValue.s, bValue.s)
  ELSE IF aValue.t = "num" /\ bValue.t = "num"
    THEN IF isDesc THEN bValue.n - aValue.n ELSE aValue.n - bValue.n
  ELSE IF aValue.t = "date" /\ bValue.t = "date"
    THEN IF isDesc THEN bValue.n - aValue.n ELSE aValue.n - bValue.n
  ELSE IF isDesc THEN localeCompare(StringOf(bValue), StringOf(aValue))
                 ELSE localeCompare(StringOf(aValue), StringOf(bValue))

\* A variant that lets the direction flip the place of absent values, as a
\* comparator that negates its ascending result would.
compareValuesNullsFlip(aValue, bValue, isDesc) ==
  IF IsNullish(aValue) THEN (IF isDesc THEN -1 ELSE 1)
  ELSE IF IsNullish(bValue) THEN (IF isDesc THEN 1 ELSE -1)
  ELSE compareNonNull(aValue, bValue, isDesc)

compareValues(aValue, bValue, isDesc) ==
  IF IsNullish(aValue) THEN 1
  ELSE IF IsNullish(bValue) THEN -1
  ELSE compareNonNull(aValue, bValue, isDesc)

comparator(a, b, sortField, isDesc) ==
  compareValues(GetField(a, sortField), GetField(b, sortField), isDesc)

(***************************************************************************)
(* Array.prototype.sort as the runtime (V8) runs it on an array shorter    *)
(* than 64 elements: the leading run is counted (and reversed when it is   *)
(* strictly descending), then every later element is placed by binary      *)
(* insertion.  Indices are zero-based as in the engine; arr[i + 1] is the   *)
(* element at index i.                                                     *)
(***************************************************************************)
RECURSIVE RunEnd(_, _, _, _, _)
\* The index after the last element of the run that starts at index 0.
RunEnd(arr, idx, isDescending, f, d) ==
  IF idx >= Len(arr) THEN idx
  ELSE LET order == comparator(arr[idx + 1], arr[idx], f, d)
       IN IF isDescending
            THEN IF order >= 0 THEN idx ELSE RunEnd(arr, idx + 1, isDescending, f, d)
            ELSE IF order < 0 THEN idx ELSE RunEnd(arr, idx + 1, isDescending, f, d)

Reverse(x) == [i \in 1..Len(x) |-> x[Len(x) + 1 - i]]

CountAndMakeRun(arr, f, d) ==
  IF Len(arr) < 2 THEN [arr |-> arr, run |-> Len(arr)]
  ELSE LET isDescending == comparator(arr[2], arr[1], f, d) < 0
           run == RunEnd(arr, 2, isDescending, f, d)
       IN [arr |-> IF isDescending
                     THEN Reverse(SubSeq(arr, 1, run)) \o SubSeq(arr, run + 1, Len(arr))
                     ELSE arr,
           run |-> run]

RECURSIVE BinarySearch(_, _, _, _, _, _)
BinarySearch(arr, pivot, left, right, f, d) ==
  IF left < right
    THEN LET mid == left + ((right - left) \div 2)
         IN IF comparator(pivot, arr[mid + 1], f, d) < 0
              THEN BinarySearch(arr, pivot, left, mid, f, d)
              ELSE BinarySearch(arr, pivot, mid + 1, right, f, d)
    ELSE left

\* A variant that places one element and leaves the rest where it is.
BinaryInsertionSortOnce(arr, start, f, d) ==
  IF start >= Len(arr) THEN arr
  ELSE LET pivot == arr[start + 1]
           pos == BinarySearch(arr, pivot, 0, start, f, d)
       IN SubSeq(arr, 1, pos) \o <<pivot>> \o SubSeq(arr, pos + 1, start)
            \o SubSeq(arr, start + 2, Len(arr))

RECURSIVE BinaryInsertionSort(_, _, _, _)
BinaryInsertionSort(arr, start, f, d) ==
  IF start >= Len(arr) THEN arr
  ELSE LET pivot == arr[start + 1]
           pos == BinarySearch(arr, pivot, 0, start, f, d)
           moved == SubSeq(arr, 1, pos) \o <<pivot>> \o SubSeq(arr, pos + 1, start)
                      \o SubSeq(arr, start + 2, Len(arr))
       IN BinaryInsertionSort(moved, start + 1, f, d)

ArraySort(arr, f, d) ==
  LET r == CountAndMakeRun(arr, f, d)
  IN BinaryInsertionSort(r.arr, r.run, f, d)

applySorting(data, sort) ==
  IF sort = <<>> THEN data
  ELSE LET parts == Split(sort, ",")
           sortField == Part(parts, 1)
           sortDirection == Part(parts, 2)
           isDesc == sortDirection # Undefined
                       /\ toUpperCase(sortDirection) = <<"DESC">>
       IN ArraySort(data, sortField, isDesc)

(***************************************************************************)
(* applyPagination.                                                        *)
(***************************************************************************)
\* Array.prototype.slice(start, end) with zero-based, possibly negative or
\* out-of-range bounds.
Slice(arr, startIndex, endIndex) ==
  LET len == Len(arr)
      rel(k) == IF k < 0 THEN (IF len + k < 0 THEN 0 ELSE len + k)
                ELSE (IF k > len THEN len ELSE k)
      from == rel(startIndex)
      to == rel(endIndex)
  IN IF from >= to THEN <<>> ELSE SubSeq(arr, from + 1, to)

\* A variant that rounds down, as Math.floor would.
Floor(a, b) == a \div b

\* Math.ceil(a / b) for b > 0.
Ceil(a, b) == IF a >= 0 THEN (a + b - 1) \div b ELSE -((-a) \div b)

\* A variant that reports the limit as the count.
applyPaginationCountsLimit(data, page, limit) ==
  LET total == Len(data)
      startIndex == (page - 1) * limit
      paginatedData == Slice(data, startIndex, startIndex + limit)
  IN [data |-> paginatedData, count |-> limit, total |-> total,
      page |-> page, pageCount |-> Ceil(total, limit)]

\* A variant that takes the page number as zero-based.
applyPaginationZeroBased(data, page, limit) ==
  LET total == Len(data)
      startIndex == page * limit
      paginatedData == Slice(data, startIndex, startIndex + limit)
  IN [data |-> paginatedData, count |-> Len(paginatedData), total |-> total,
      page |-> page, pageCount |-> Ceil(total, limit)]

\* A variant that reports the size of the page as the total.
applyPaginationTotalOfPage(data, page, limit) ==
  LET startIndex == (page - 1) * limit
      paginatedData == Slice(data, startIndex, startIndex + limit)
  IN [data |-> paginatedData, count |-> Len(paginatedData),
      total |-> Len(paginatedData), page |-> page,
      pageCount |-> Ceil(Len(data), limit)]

applyPagination(data, page, limit) ==
  LET total == Len(data)
      startIndex == (page - 1) * limit
      endIndex == startIndex + limit
      paginatedData == Slice(data, startIndex, endIndex)
      pageCount == Ceil(total, limit)
  IN [data |-> paginatedData, count |-> Len(paginatedData), total |-> total,
      page |-> page, pageCount |-> pageCount]

(***************************************************************************)
(* decodeURIComponent: "%" and two hexadecimal digits stand for one byte.  *)
(* A byte below 128 is the character with that code; the bytes from 128    *)
(* that the alphabet can spell are continuation bytes, which cannot start  *)
(* a character, and a "%" without two hexadecimal digits is malformed: in  *)
(* both cases the call throws URIError.                                    *)
(***************************************************************************)
URIError == <<"<URIError>">>

IsHex(c) == IsDigit(c) \/ c \in {"a", "A", "b", "B"}
HexVal(c) ==
  IF IsDigit(c) THEN DigitVal(c) ELSE IF c \in {"a", "A"} THEN 10 ELSE 11

CharOfCode(k) ==
  CASE k = 37 -> "%" [] k = 44 -> "," [] k = 45 -> "-"
    [] k >= 48 /\ k <= 57 -> Digits[k - 47]
    [] k = 65 -> "A" [] k = 66 -> "B" [] k = 97 -> "a" [] k = 98 -> "b"
    [] OTHER -> "?"

RECURSIVE DecodeFrom(_, _)
DecodeFrom(x, i) ==
  IF i > Len(x) THEN <<>>
  ELSE IF x[i] # "%" THEN
    LET rest == DecodeFrom(x, i + 1)
    IN IF rest = URIError THEN URIError ELSE <<x[i]>> \o rest
  ELSE IF i + 2 > Len(x) \/ ~IsHex(x[i + 1]) \/ ~IsHex(x[i + 2]) THEN URIError
  ELSE LET code == 16 * HexVal(x[i + 1]) + HexVal(x[i + 2])
           rest == DecodeFrom(x, i + 3)
       IN IF code >= 128 \/ rest = URIError THEN URIError
          ELSE <<CharOfCode(code)>> \o rest

decodeURIComponent(x) == DecodeFrom(x, 1)

(***************************************************************************)
(* The field types a repository hands to the pipeline: those of the order  *)
(* repository, and the Boolean field of the documented user example.       *)
(***************************************************************************)
FieldTypes ==
  [id |-> "String", name |-> "String", status |-> "Number",
   createdAt |-> "Date", isActive |-> "Boolean"]

\* fieldTypes[field]
FieldTypeOf(field, fieldTypes) ==
  IF Len(field) = 1 /\ field[1] \in DOMAIN fieldTypes
    THEN fieldTypes[field[1]] ELSE "undefined"

\* What a call that throws evaluates to.
Throw(e) == [t |-> "throw", n |-> 0, s |-> <<e>>]
IsThrow(v) == v.t = "throw"

\* A variant whose Boolean case compares the value as it is written.
convertFilterValueCaseSensitive(field, value, fieldTypes) ==
  LET fieldType == FieldTypeOf(field, fieldTypes)
  IN CASE fieldType = "Number" -> ToNumber(value)
       [] fieldType = "Date" -> ToDate(value)
       [] fieldType = "Boolean" ->
            IF value = Undefined THEN Throw("TypeError")
            ELSE Bool(value = <<"true">>)
       [] OTHER -> IF value = Undefined THEN UndefinedV ELSE Str(value)

convertFilterValue(field, value, fieldTypes) ==
  LET fieldType == FieldTypeOf(field, fieldTypes)
  IN CASE fieldType = "Number" -> ToNumber(value)
       [] fieldType = "Date" -> ToDate(value)
       [] fieldType = "Boolean" ->
            IF value = Undefined THEN Throw("TypeError")
            ELSE Bool(toLowerCase(value) = <<"true">>)
       [] OTHER -> IF value = Undefined THEN UndefinedV ELSE Str(value)

(***************************************************************************)
(* applyDynamoDBFilters: every filter string is split on "||" and adds at  *)
(* most one condition to the scan query; a throw ends the loop.            *)
(***************************************************************************)
Cond(field, op, v, w) == [field |-> field, op |-> op, v |-> v, w |-> w]
NoCond == Cond(<<>>, "none", Null, Null)

\* The scan condition that a converted value is compared with by `op`.
Compare(field, op, value, fieldTypes) ==
  LET v == convertFilterValue(field, value, fieldTypes)
  IN IF IsThrow(v) THEN [kind |-> "throw", err |-> v.s[1], cond |-> NoCond]
     ELSE [kind |-> "cond", err |-> "", cond |-> Cond(field, op, v, Null)]

Includes(x, c) == \E i \in 1..Len(x) : x[i] = c

\* A variant of the default case that falls into the `eq` case.
defaultCaseAsEq(field, value, fieldTypes) ==
  Compare(field, "eq", value, fieldTypes)

\* The default case of the switch: the filter adds no condition.
defaultCase(field, value, fieldTypes) ==
  [kind |-> "skip", err |-> "", cond |-> NoCond]

filterCondition(filterStr, fieldTypes) ==
  LET parts == Split(filterStr, "||")
      field == Part(parts, 1)
      operator == Part(parts, 2)
      value == Part(parts, 3)
      skip == [kind |-> "skip", err |-> "", cond |-> NoCond]
      plain(op, v) == [kind |-> "cond", err |-> "", cond |-> Cond(field, op, v, Null)]
  IN CASE operator = <<"eq">> -> Compare(field, "eq", value, fieldTypes)
       [] operator = <<"ne">> -> Compare(field, "ne", value, fieldTypes)
       [] operator = <<"cont">> ->
            plain("contains", IF value = Undefined THEN UndefinedV ELSE Str(value))
       [] operator = <<"between">> ->
            IF value = Undefined
              THEN [kind |-> "throw", err |-> "TypeError", cond |-> NoCond]
            ELSE IF Includes(value, ",")
              THEN LET raw == Split(value, ",")
                       dec == [i \in 1..Len(raw) |-> decodeURIComponent(raw[i])]
                   IN IF \E i \in 1..Len(dec) : dec[i] = URIError
                        THEN [kind |-> "throw", err |-> "URIError", cond |-> NoCond]
                        ELSE [kind |-> "cond", err |-> "",
                              cond |-> Cond(field, "between", Str(dec[1]), Str(dec[2]))]
            ELSE skip
       [] operator = <<"gt">> -> Compare(field, "gt", value, fieldTypes)
       [] operator = <<"gte">> -> Compare(field, "ge", value, fieldTypes)
       [] operator = <<"lt">> -> Compare(field, "lt", value, fieldTypes)
       [] operator = <<"lte">> -> Compare(field, "le", value, fieldTypes)
       [] operator = <<"isnull">> -> plain("null", Null)
       [] operator = <<"notnull">> -> plain("notnull", Null)
       [] OTHER -> defaultCase(field, value, fieldTypes)

\* A variant that loses the conditions, as a loop that does not reassign
\* the scan query would.
applyDynamoDBFiltersNotKept(conds, filters, fieldTypes) ==
  [ok |-> TRUE, err |-> "", conds |-> conds]

RECURSIVE applyDynamoDBFilters(_, _, _)
\* The scan query (its conditions, in order) after the filters from index i
\* on were applied to `conds`, or the error thrown on the way.
applyDynamoDBFilters(conds, filters, fieldTypes) ==
  IF filters = <<>> THEN [ok |-> TRUE, err |-> "", conds |-> conds]
  ELSE LET r == filterCondition(Head(filters), fieldTypes)
       IN CASE r.kind = "throw" -> [ok |-> FALSE, err |-> r.err, conds |-> <<>>]
            [] r.kind = "cond" ->
                 applyDynamoDBFilters(Append(conds, r.cond), Tail(filters), fieldTypes)
            [] OTHER -> applyDynamoDBFilters(conds, Tail(filters), fieldTypes)

(***************************************************************************)
(* The store: how a scan evaluates one condition on one item.  Values of   *)
(* different types never compare equal or ordered; strings are ordered by  *)
(* their bytes; an absent attribute only satisfies `ne` and `null`.        *)
(***************************************************************************)
ByteOf(c) ==
  CASE c = "%" -> 37 [] c = "," -> 44 [] c = "-" -> 45
    [] IsDigit(c) -> 48 + DigitVal(c)
    [] c = "?" -> 63 [] c = "A" -> 65 [] c = "B" -> 66 [] c = "D" -> 68
    [] c \in {"TRUE", "True"} -> 84
    [] c = "a" -> 97 [] c = "b" -> 98 [] c = "false" -> 102
    [] c = "true" -> 116 [] c = "|" -> 124
    [] OTHER -> 127

BytesCompare(x, y) ==
  LexCompare([i \in 1..Len(x) |-> ByteOf(x[i])],
             [i \in 1..Len(y) |-> ByteOf(y[i])], 1)

IsSubstring(x, y) ==
  \E i \in 0..(Len(y) - Len(x)) : SubSeq(y, i + 1, i + Len(x)) = x

\* -1, 0, 1 for two values of one ordered type; 2 when they do not compare.
StoreCompare(a, v) ==
  IF a.t # v.t THEN 2
  ELSE CASE a.t \in {"num", "date"} ->
              IF a.n < v.n THEN -1 ELSE IF a.n > v.n THEN 1 ELSE 0
         [] a.t = "str" -> BytesCompare(a.s, v.s)
         [] OTHER -> 2

Matches(item, c) ==
  LET a == GetField(item, c.field)
  IN CASE c.op = "eq" -> a.t # "null" /\ a = c.v
       [] c.op = "ne" -> a # c.v
       [] c.op = "contains" -> a.t = "str" /\ c.v.t = "str" /\ IsSubstring(c.v.s, a.s)
       [] c.op = "between" ->
            /\ StoreCompare(a, c.v) \in {0, 1}
            /\ StoreCompare(a, c.w) \in {-1, 0}
       [] c.op = "gt" -> StoreCompare(a, c.v) = 1
       [] c.op = "ge" -> StoreCompare(a, c.v) \in {0, 1}
       [] c.op = "lt" -> StoreCompare(a, c.v) = -1
       [] c.op = "le" -> StoreCompare(a, c.v) \in {-1, 0}
       [] c.op = "null" -> a.t = "null"
       [] c.op = "notnull" -> a.t # "null"
       [] OTHER -> FALSE

\* An operand the store cannot take as an attribute value: the request is
\* refused as a whole.
ValidOperand(v) == v.t \notin {"nan", "invalidDate", "undefined"}
ValidQuery(conds) ==
  \A i \in 1..Len(conds) : ValidOperand(conds[i].v) /\ ValidOperand(conds[i].w)

\* A variant that keeps the items that satisfy any of the conditions.
ScanItemsAny(items, conds) ==
  SelectSeq(items, LAMBDA item :
    conds = <<>> \/ \E i \in 1..Len(conds) : Matches(item, conds[i]))

\* scanQuery.exec(): the items that satisfy every condition, in scan order.
ScanItems(items, conds) ==
  SelectSeq(items, LAMBDA item : \A i \in 1..Len(conds) : Matches(item, conds[i]))

\* A variant that slices first and sorts the page.
processResultSortsPage(allData, sort, page, limit) ==
  LET r == applyPagination(allData, page, limit)
  IN [r EXCEPT !.data = applySorting(r.data, sort)]

\* processQuery after the scan returned: sort the whole result, then slice.
processResult(allData, sort, page, limit) ==
  LET sortedData == applySorting(allData, sort)
  IN applyPagination(sortedData, page, limit)

(***************************************************************************)
(* The state: the items of the table in scan order, and one processQuery   *)
(* call from its entry to its return.                                      *)
(***************************************************************************)
VARIABLES
  table,      \* the items of the table, in the order a scan yields them
  pc,         \* "idle", "scanning" (awaiting scanQuery.exec()), "done", "failed"
  req,        \* the arguments of the call: filters, sort, page, limit
  scanQuery,  \* the conditions put on the scan query
  result,     \* the PageResult returned
  err,        \* the error the call ended with
  pages,      \* the results of successive applyPagination calls on one array
  scans,      \* how many times the call in progress ran scanQuery.exec()
  convArgs,   \* the arguments of a convertFilterValue call
  convOut,    \* what that call returned
  authInfo,   \* ApiService.authInfo
  apiCall,    \* the request of the ApiService in flight and how it ended
  users,      \* the items of the users table
  regs,       \* the AuthService.register calls in progress
  ret,        \* what the last call of the users and auth services returned
  created,    \* how many users the users table was ever given
  env,        \* process.env of the API process
  isConnected,\* DynamoDBService.isConnected
  dbPc,       \* where onModuleInit of the DynamoDBService is
  endpoint,   \* the local endpoint dynamoose was configured with ("": none)
  listFailed, \* whether the listTables call of testConnection rejected
  health,     \* what the last healthCheck returned
  calls,      \* the processQuery calls running side by side on one table
  tokens,     \* the payloads of the JWTs that clients hold
  guardReq,   \* a request to a route behind JwtAuthGuard
  store,      \* the state of useAuthStore
  localStorage,\* the access_token and user_data items of the browser
  apiToken,   \* the token set in the apiClient
  inflight,   \* the requests of the auth store awaiting their response
  nav         \* the navigation the router is resolving

queryVars == <<table, pc, req, scanQuery, result, err, pages, scans>>
convVars == <<convArgs, convOut>>
apiVars == <<authInfo, apiCall>>
authVars == <<users, regs, ret>>
dbVars == <<env, isConnected, dbPc, endpoint, listFailed, health>>
jwtVars == <<tokens, guardReq>>
frontVars == <<store, localStorage, apiToken, inflight, nav>>
otherVars == <<dbVars, calls, jwtVars, frontVars>>
restVars == <<created, otherVars>>
vars == <<queryVars, convVars, apiVars, authVars, restVars>>

NoReq == [filters |-> <<>>, sort |-> <<>>, page |-> 0, limit |-> 0]
NoResult == [data |-> <<>>, count |-> 0, total |-> 0, page |-> 0, pageCount |-> 0]

\* An item of a table; id is set when the item is created.
Item(id, status, name, isActive) ==
  [id |-> id, status |-> status, name |-> name, isActive |-> isActive]

\* The items a repository may be given to store: an order that is new, an
\* order that is closed, and an item that lacks the attributes.
Entities ==
  { Item(Null, Num(1), Str(<<"a", "b">>), Bool(TRUE)),
    Item(Null, Num(0), Str(<<"A">>), Bool(FALSE)),
    Item(Null, Null, Null, Null) }

\* "<field>||<operator>||<value>"
F(field, operator, value) == <<field, "||", operator, "||">> \o value

FilterStrs ==
  { F("status", "eq", <<"1">>),
    F("status", "gte", <<"1">>),
    F("status", "ne", <<"0">>),
    F("name", "cont", <<"a">>),
    F("isActive", "eq", <<"TRUE">>),
    F("name", "between", <<"A", ",", "a">>),
    F("status", "between", <<"1">>),
    F("status", "foo", <<"1">>),
    <<"name", "||", "isnull">>,
    <<"status", "||", "eq">>,
    <<"createdAt", "||", "between">>,
    <<"isActive", "||", "eq">>,
    <<"status">> }

SeqsUpTo(S, k) == UNION { [1..m -> S] : m \in 0..k }

Sorts ==
  { <<>>, <<"id", ",", "DESC">>, <<"status", ",", "asc">> }

\* What OrdersController.findAll passes on when the query string leaves a
\* parameter out.
DefaultSort == <<"id", ",", "DESC">>
DefaultPage == 1
DefaultLimit == 10

\* The filters of the requests that also choose sort, page and limit.
PagedFilterStrs == { F("status", "eq", <<"1">>), <<"status", "||", "eq">> }

Request(filters, sort, page, limit) ==
  [filters |-> filters, sort |-> sort, page |-> page, limit |-> limit]

\* The calls of the model: any filters with the controller's defaults, and
\* a few filters with every sort, page and limit.
Requests ==
  { Request(f, DefaultSort, DefaultPage, DefaultLimit) :
      f \in SeqsUpTo(FilterStrs, MaxFilters) }
  \cup
  { Request(f, st, p, l) :
      f \in SeqsUpTo(PagedFilterStrs, MaxFilters), st \in Sorts,
      p \in 1..MaxPage, l \in 1..MaxLimit }

\* The parts of the state that a specification leaves alone.
NoConv == [field |-> <<>>, value |-> <<>>]
NoCall == [pc |-> "idle", method |-> "", status |-> 0, body |-> "", error |-> "",
           data |-> Null]
NoDto == [username |-> "", password |-> <<>>, email |-> ""]
NoReg == [pc |-> "idle", dto |-> NoDto, error |-> ""]
NoRet == [op |-> "", kind |-> "none", user |-> <<>>]

NoEnv == [NODE_ENV |-> "", AWS_REGION |-> "", DYNAMODB_ENDPOINT |-> ""]
NoHealth == [status |-> "", region |-> "", environment |-> "", connected |-> FALSE]
NoReadCall ==
  [pc |-> "idle", req |-> NoReq, scanQuery |-> <<>>, allData |-> <<>>,
   sortedData |-> <<>>, result |-> NoResult, err |-> ""]
NoPayload == [username |-> "", sub |-> 0, expired |-> FALSE]
NoGuardReq == [pc |-> "idle", payload |-> NoPayload, user |-> Null, outcome |-> ""]
\* state() of useAuthStore; "" stands for a null error message.
NoStore ==
  [isAuthenticated |-> FALSE, user |-> Null, isLoading |-> FALSE,
   loginError |-> "", registerError |-> ""]
NoStorage == [access_token |-> Null, user_data |-> Null]
NoNav == [pc |-> "idle", to |-> "", redirect |-> "", redirects |-> 0]

ConvIdle == convArgs = NoConv /\ convOut = Null
ApiIdle == authInfo = Null /\ apiCall = NoCall
AuthIdle ==
  users = <<>> /\ regs = [i \in 1..MaxRegs |-> NoReg] /\ ret = NoRet
DbIdle ==
  /\ env = NoEnv /\ isConnected = FALSE /\ dbPc = "constructed"
  /\ endpoint = ""
  /\ listFailed = FALSE /\ health = NoHealth
ReadIdle == calls = [i \in 1..MaxCalls |-> NoReadCall]
JwtIdle == tokens = {} /\ guardReq = NoGuardReq
FrontIdle ==
  /\ store = NoStore /\ localStorage = NoStorage /\ apiToken = Null
  /\ inflight = {} /\ nav = NoNav
RestIdle == created = 0 /\ DbIdle /\ ReadIdle /\ JwtIdle /\ FrontIdle

Init ==
  /\ table = <<>>
  /\ pc = "idle"
  /\ req = NoReq
  /\ scanQuery = <<>>
  /\ result = NoResult
  /\ err = ""
  /\ pages = <<>>
  /\ scans = 0
  /\ ConvIdle /\ ApiIdle /\ AuthIdle /\ RestIdle

\* OrderRepository.create: the store gains an item.
Create(o) ==
  /\ pc = "idle"
  /\ Len(table) < MaxRecords
  /\ table' = Append(table, [o EXCEPT !.id = Str(NatToDigits(Len(table) + 1))])
  /\ UNCHANGED <<pc, req, scanQuery, result, err, pages, scans>>
  /\ UNCHANGED <<convVars, apiVars, authVars, restVars>>

\* processQuery up to its await: the scan query is built from the filters.
ProcessQuery(filters, sort, page, limit) ==
  /\ pc = "idle"
  /\ req' = Request(filters, sort, page, limit)
  /\ LET q == IF Len(filters) > 0
                THEN applyDynamoDBFilters(<<>>, filters, FieldTypes)
                ELSE [ok |-> TRUE, err |-> "", conds |-> <<>>]
     IN IF q.ok
          THEN /\ scanQuery' = q.conds
               /\ pc' = "scanning"
               /\ err' = ""
          ELSE /\ scanQuery' = <<>>
               /\ pc' = "failed"
               /\ err' = q.err
  /\ scans' = 0
  /\ UNCHANGED <<table, result, pages>>
  /\ UNCHANGED <<convVars, apiVars, authVars, restVars>>

\* scanQuery.exec() resolves; the rest of processQuery runs to its return.
ScanExec ==
  /\ pc = "scanning"
  /\ ValidQuery(scanQuery)
  /\ result' = processResult(ScanItems(table, scanQuery), req.sort, req.page, req.limit)
  /\ pc' = "done"
  /\ scans' = scans + 1
  /\ UNCHANGED <<table, req, scanQuery, err, pages>>
  /\ UNCHANGED <<convVars, apiVars, authVars, restVars>>

\* scanQuery.exec() rejects because an operand is no attribute value.
ScanReject ==
  /\ pc = "scanning"
  /\ ~ValidQuery(scanQuery)
  /\ pc' = "failed"
  /\ err' = "ValidationException"
  /\ scans' = scans + 1
  /\ UNCHANGED <<table, req, scanQuery, result, pages>>
  /\ UNCHANGED <<convVars, apiVars, authVars, restVars>>

\* A variant in which a failed scan is issued again.
ScanFailRetried ==
  /\ pc = "scanning"
  /\ scans < 2
  /\ scans' = scans + 1
  /\ UNCHANGED <<table, pc, req, scanQuery, result, err, pages>>
  /\ UNCHANGED <<convVars, apiVars, authVars, restVars>>

\* scanQuery.exec() rejects because the store failed.
ScanFail ==
  /\ pc = "scanning"
  /\ pc' = "failed"
  /\ err' = "StoreFailure"
  /\ req' = NoReq
  /\ scanQuery' = <<>>
  /\ scans' = scans + 1
  /\ UNCHANGED <<table, result, pages>>
  /\ UNCHANGED <<convVars, apiVars, authVars, restVars>>

\* The caller has its answer; the next request may come.
Return ==
  /\ pc \in {"done", "failed"}
  /\ pc' = "idle"
  /\ req' = NoReq
  /\ scanQuery' = <<>>
  /\ result' = NoResult
  /\ err' = ""
  /\ scans' = 0
  /\ UNCHANGED <<table, pages>>
  /\ UNCHANGED <<convVars, apiVars, authVars, restVars>>

Next ==
  \/ \E o \in Entities : Create(o)
  \/ \E r \in Requests : ProcessQuery(r.filters, r.sort, r.page, r.limit)
  \/ ScanExec
  \/ ScanReject
  \/ ScanFail
  \/ Return

Spec == Init /\ [][Next]_vars

(***************************************************************************)
(* applySorting on its own: any array of items whose sorted column holds   *)
(* numbers, strings and absent values, under each sort string.             *)
(***************************************************************************)
SortValues == { Null, Num(2), Num(10), Str(<<"1", "a">>) }

SortStrs ==
  { <<>>, <<"status", ",", "ASC">>, <<"status", ",", "desc">>,
    <<"name", ",", "DESC">>, <<"status">>, <<"status", ",", "Desc">>,
    <<"status", ",", "up">> }

\* The array whose i-th item has id i and the i-th value in its column.
ItemsOf(values) ==
  [i \in 1..Len(values) |-> Item(Str(NatToDigits(i)), values[i], Null, Null)]

SortInit ==
  /\ table \in { ItemsOf(v) : v \in SeqsUpTo(SortValues, MaxSortLen) }
  /\ pc = "idle"
  /\ req = NoReq
  /\ scanQuery = <<>>
  /\ result = NoResult
  /\ err = ""
  /\ pages = <<>>
  /\ scans = 0
  /\ ConvIdle /\ ApiIdle /\ AuthIdle /\ RestIdle

SortCall(sort) ==
  /\ pc = "idle"
  /\ req' = [NoReq EXCEPT !.sort = sort]
  /\ result' = [NoResult EXCEPT !.data = applySorting(table, sort)]
  /\ pc' = "done"
  /\ UNCHANGED <<table, scanQuery, err, pages, scans>>
  /\ UNCHANGED <<convVars, apiVars, authVars, restVars>>

SortNext == \E sort \in SortStrs : SortCall(sort)

SortSpec == SortInit /\ [][SortNext]_vars

(***************************************************************************)
(* applyPagination on its own: a client reads page 1, 2, 3, ... of one     *)
(* array with one limit.                                                   *)
(***************************************************************************)
PageInit ==
  /\ table \in { ItemsOf([i \in 1..k |-> Num(1)]) : k \in 0..MaxPageLen }
  /\ pc = "idle"
  /\ req \in { [NoReq EXCEPT !.limit = l] : l \in 1..MaxPageLimit }
  /\ scanQuery = <<>>
  /\ result = NoResult
  /\ err = ""
  /\ pages = <<>>
  /\ scans = 0
  /\ ConvIdle /\ ApiIdle /\ AuthIdle /\ RestIdle

FetchPage ==
  /\ pc = "idle"
  /\ Len(pages) < MaxPageNo
  /\ LET r == applyPagination(table, Len(pages) + 1, req.limit)
     IN /\ result' = r
        /\ pages' = Append(pages, r)
  /\ UNCHANGED <<table, pc, req, scanQuery, err, scans>>
  /\ UNCHANGED <<convVars, apiVars, authVars, restVars>>

PageNext == FetchPage

PageSpec == PageInit /\ [][PageNext]_vars

(***************************************************************************)
(* applyDynamoDBFilters and the scan on their own: a table of orders and   *)
(* one list of filter strings.                                             *)
(***************************************************************************)
\* "2024-mm-dd"
IsoDate(m, d) ==
  <<"2", "0", "2", "4", "-">> \o (IF m < 10 THEN <<"0">> ELSE <<>>) \o NatToDigits(m)
    \o <<"-">> \o (IF d < 10 THEN <<"0">> ELSE <<>>) \o NatToDigits(d)

\* An order as the table holds it.
Order(name, status, createdAt) ==
  [id |-> Null, status |-> status, name |-> name, isActive |-> Null,
   createdAt |-> createdAt]

FilterEntities ==
  { Order(Str(<<"a", "b">>), Num(1), ToDate(IsoDate(1, 1))),
    Order(Str(<<"A", "b">>), Num(2), ToDate(IsoDate(1, 15))),
    Order(Str(<<"b", "a">>), Num(3), ToDate(IsoDate(1, 31))),
    Order(Str(<<"b">>), Num(3), ToDate(IsoDate(2, 1))),
    Order(Null, Null, Null) }

\* The table whose i-th item has id i.
WithIds(items) ==
  [i \in 1..Len(items) |-> [items[i] EXCEPT !.id = Str(NatToDigits(i))]]

\* The filters that are applied one at a time.
FilterCases ==
  { F("name", "starts", <<"a">>),
    F("name", "ends", <<"b">>),
    F("name", "excl", <<"a">>),
    F("name", "cont", <<"b">>),
    F("name", "cont", <<"B">>),
    F("name", "between", <<"a", ",", "b">>),
    F("name", "between", <<"%", "6", "1", ",", "%", "6", "2">>),
    F("createdAt", "between", IsoDate(1, 1) \o <<",">> \o IsoDate(1, 31)),
    F("status", "between", <<"1", ",", "2">>),
    F("status", "gte", <<"2">>),
    F("createdAt", "lte", IsoDate(1, 15)),
    <<"name", "||", "notnull">> }

\* The filters that are also applied together.
ComposedCases ==
  { F("name", "cont", <<"b">>),
    F("name", "between", <<"a", ",", "b">>),
    F("status", "gte", <<"2">>),
    F("createdAt", "lte", IsoDate(1, 15)) }

FilterLists ==
  { <<f>> : f \in FilterCases } \cup SeqsUpTo(ComposedCases, MaxConds)

FilterInit ==
  /\ table \in { WithIds(t) : t \in SeqsUpTo(FilterEntities, MaxFilterRecords) }
  /\ pc = "idle"
  /\ req = NoReq
  /\ scanQuery = <<>>
  /\ result = NoResult
  /\ err = ""
  /\ pages = <<>>
  /\ scans = 0
  /\ ConvIdle /\ ApiIdle /\ AuthIdle /\ RestIdle

\* The scan query is built from the filters and executed.
FilterCall(filters) ==
  /\ pc = "idle"
  /\ req' = [NoReq EXCEPT !.filters = filters]
  /\ LET q == applyDynamoDBFilters(<<>>, filters, FieldTypes)
     IN /\ IF q.ok /\ ValidQuery(q.conds)
             THEN /\ scanQuery' = q.conds
                  /\ result' = [NoResult EXCEPT !.data = ScanItems(table, q.conds)]
                  /\ pc' = "done"
                  /\ err' = ""
             ELSE /\ scanQuery' = <<>>
                  /\ result' = NoResult
                  /\ pc' = "failed"
                  /\ err' = IF q.ok THEN "ValidationException" ELSE q.err
        /\ scans' = IF q.ok THEN 1 ELSE 0
  /\ UNCHANGED <<table, pages>>
  /\ UNCHANGED <<convVars, apiVars, authVars, restVars>>

FilterNext == \E filters \in FilterLists : FilterCall(filters)

FilterSpec == FilterInit /\ [][FilterNext]_vars

(***************************************************************************)
(* convertFilterValue on its own: a field, a value, the field types.       *)
(***************************************************************************)
ConvFields ==
  { <<"id">>, <<"name">>, <<"status">>, <<"createdAt">>, <<"isActive">>,
    <<"town">> }

ConvValues ==
  { <<"true">>, <<"TRUE">>, <<"True">>, <<"false">>, <<"1">>, <<"1", "0">>,
    <<"1", "a">>, <<"a", "b">>, <<>>, IsoDate(1, 15) }

ConvInit ==
  /\ convArgs \in { [field |-> f, value |-> v] : f \in ConvFields, v \in ConvValues }
  /\ convOut = Null
  /\ table = <<>>
  /\ pc = "idle"
  /\ req = NoReq
  /\ scanQuery = <<>>
  /\ result = NoResult
  /\ err = ""
  /\ pages = <<>>
  /\ scans = 0
  /\ ApiIdle /\ AuthIdle /\ RestIdle

ConvCall ==
  /\ pc = "idle"
  /\ convOut' = convertFilterValue(convArgs.field, convArgs.value, FieldTypes)
  /\ pc' = "done"
  /\ UNCHANGED <<table, req, scanQuery, result, err, pages, scans, convArgs>>
  /\ UNCHANGED <<apiVars, authVars, restVars>>

ConvNext == ConvCall

ConvSpec == ConvInit /\ [][ConvNext]_vars

(***************************************************************************)
(* ApiService: one instance, its authentication info and one request from  *)
(* the fetch to the return of handleResponse.  applyAuthInfo and           *)
(* clearAuthInfo are synchronous and may run while a fetch is awaited.     *)
(***************************************************************************)
\* The object handed to applyAuthInfo: headers that carry a token.
AuthHeaders(token) == [t |-> "obj", n |-> 0, s |-> <<"Authorization", token>>]

AuthInfos == { Null, UndefinedV, AuthHeaders("t1"), AuthHeaders("t2") }

Methods == { "GET", "POST", "PATCH", "DELETE", "PUT" }
Statuses == { 200, 204, 401, 403, 500 }

\* What response.json() finds: an object with a message, an object
\* without one, or a body that is not JSON.
Bodies == { "jsonMessage", "json", "text" }

isAuthenticated == authInfo # Null /\ authInfo # UndefinedV

\* The headers of a request: the authentication info when it is an object.
getAuthHeaders ==
  IF authInfo # Null /\ authInfo.t = "obj" THEN authInfo ELSE Null

ApiInit ==
  /\ authInfo = Null
  /\ apiCall = NoCall
  /\ table = <<>>
  /\ pc = "idle"
  /\ req = NoReq
  /\ scanQuery = <<>>
  /\ result = NoResult
  /\ err = ""
  /\ pages = <<>>
  /\ scans = 0
  /\ ConvIdle /\ AuthIdle /\ RestIdle

applyAuthInfo(auth) ==
  /\ authInfo' = auth
  /\ UNCHANGED <<apiCall, queryVars, convVars, authVars, restVars>>

clearAuthInfo ==
  /\ authInfo' = Null
  /\ UNCHANGED <<apiCall, queryVars, convVars, authVars, restVars>>

\* get, post, patch, delete up to the awaited fetch.
ApiRequest(method) ==
  /\ apiCall.pc = "idle"
  /\ apiCall' = [NoCall EXCEPT !.pc = "fetching", !.method = method,
                                !.data = getAuthHeaders]
  /\ UNCHANGED <<authInfo, queryVars, convVars, authVars, restVars>>

\* fetch rejects (no connection): the error is logged and thrown on.
FetchReject ==
  /\ apiCall.pc = "fetching"
  /\ apiCall' = [apiCall EXCEPT !.pc = "threw", !.error = "Failed to fetch"]
  /\ UNCHANGED <<authInfo, queryVars, convVars, authVars, restVars>>

\* A variant that clears the authentication info on every failed response.
handleResponseClearsOnError(status, body) ==
  /\ apiCall.pc = "fetching"
  /\ IF status < 200 \/ status > 299
       THEN /\ authInfo' = Null
            /\ apiCall' = [apiCall EXCEPT !.pc = "threw", !.status = status,
                              !.body = body,
                              !.error = IF status = 401 THEN "Authentication required"
                                        ELSE "HTTP error"]
       ELSE /\ apiCall' = [apiCall EXCEPT !.pc = "returned", !.status = status,
                              !.body = body]
            /\ UNCHANGED authInfo
  /\ UNCHANGED <<queryVars, convVars, authVars, restVars>>

\* fetch resolves with a response and handleResponse runs to its end.
handleResponse(status, body) ==
  /\ apiCall.pc = "fetching"
  /\ IF status < 200 \/ status > 299
       THEN IF status = 401
              THEN /\ authInfo' = Null
                   /\ apiCall' = [apiCall EXCEPT !.pc = "threw", !.status = status,
                                     !.body = body,
                                     !.error = "Authentication required"]
              ELSE /\ apiCall' = [apiCall EXCEPT !.pc = "threw", !.status = status,
                                     !.body = body,
                                     !.error = IF body = "jsonMessage"
                                                 THEN "errorData.message"
                                                 ELSE "HTTP status: statusText"]
                   /\ UNCHANGED authInfo
       ELSE /\ apiCall' = [apiCall EXCEPT !.pc = "returned", !.status = status,
                              !.body = body]
            /\ UNCHANGED authInfo
  /\ UNCHANGED <<queryVars, convVars, authVars, restVars>>

\* The caller has the data or the error; the next request may be made.
ApiEnd ==
  /\ apiCall.pc \in {"returned", "threw"}
  /\ apiCall' = NoCall
  /\ UNCHANGED <<authInfo, queryVars, convVars, authVars, restVars>>

ApiNext ==
  \/ \E auth \in AuthInfos : applyAuthInfo(auth)
  \/ clearAuthInfo
  \/ \E method \in Methods : ApiRequest(method)
  \/ FetchReject
  \/ \E status \in Statuses, body \in Bodies : handleResponse(status, body)
  \/ ApiEnd

ApiSpec == ApiInit /\ [][ApiNext]_vars

(***************************************************************************)
(* The users table, UsersService and AuthService.  A register call is a    *)
(* sequence of awaited steps (findByUsername, findByEmail, create), and    *)
(* calls of different requests interleave at every await.  The other       *)
(* operations read or write the table once.                                *)
(***************************************************************************)
\* bcrypt.hash and bcrypt.compare: a hash is the word "hash" in front of
\* what was hashed.
Hash(password) == <<"hash">> \o password
Matching(password, hashed) == hashed = Hash(password)

\* RegisterDto / CreateUserDto; email "" stands for no email.
Dto(username, password, email) ==
  [username |-> username, password |-> password, email |-> email]

Dtos ==
  { Dto("u1", <<"p1">>, ""), Dto("u1", <<"p1">>, "e1"), Dto("u2", <<"p1">>, "e1") }

\* userModel.create: the item as stored, with a fresh id (randomUUID(): no
\* id is given twice, also not after a removal) and the default status
\* unless one is given.
NewUser(userData, status) ==
  [id |-> created + 1, username |-> userData.username,
   password |-> userData.password, email |-> userData.email, status |-> status]

\* const { password, ...result } = user
WithoutPassword(user) ==
  [id |-> user.id, username |-> user.username, email |-> user.email,
   status |-> user.status]

\* userModel.query(<index>).eq(value).exec(): the matching items.
QueryBy(key, value) == SelectSeq(users, LAMBDA u : u[key] = value)

findByUsername(username) == QueryBy("username", username)
findByEmail(email) == QueryBy("email", email)

AuthInit ==
  /\ AuthIdle
  /\ table = <<>>
  /\ pc = "idle"
  /\ req = NoReq
  /\ scanQuery = <<>>
  /\ result = NoResult
  /\ err = ""
  /\ pages = <<>>
  /\ scans = 0
  /\ ConvIdle /\ ApiIdle /\ RestIdle

\* AuthController.register: a request enters AuthService.register.
Register(i, registerDto) ==
  /\ regs[i].pc = "idle"
  /\ regs' = [regs EXCEPT ![i] = [pc |-> "findByUsername", dto |-> registerDto,
                                  error |-> ""]]
  /\ UNCHANGED <<users, ret, queryVars, convVars, apiVars, restVars>>

\* await findByUsername resolves: conflict, or on to the next await.
RegisterCheckUsername(i) ==
  /\ regs[i].pc = "findByUsername"
  /\ regs' = [regs EXCEPT ![i] =
       IF findByUsername(regs[i].dto.username) # <<>>
         THEN [@ EXCEPT !.pc = "threw", !.error = "Username already exists"]
       ELSE IF regs[i].dto.email # ""
         THEN [@ EXCEPT !.pc = "findByEmail"]
       ELSE [@ EXCEPT !.pc = "create"]]
  /\ UNCHANGED <<users, ret, queryVars, convVars, apiVars, restVars>>

\* await findByEmail resolves.
RegisterCheckEmail(i) ==
  /\ regs[i].pc = "findByEmail"
  /\ regs' = [regs EXCEPT ![i] =
       IF findByEmail(regs[i].dto.email) # <<>>
         THEN [@ EXCEPT !.pc = "threw", !.error = "Email already exists"]
         ELSE [@ EXCEPT !.pc = "create"]]
  /\ UNCHANGED <<users, ret, queryVars, convVars, apiVars, restVars>>

\* The password is hashed, usersService.create hashes it again and stores
\* the user; the token and the user's public fields are returned.
RegisterCreate(i) ==
  /\ regs[i].pc = "create"
  /\ Len(users) < MaxUsers
  /\ created < MaxCreated
  /\ LET hashedPassword == Hash(regs[i].dto.password)
         userData == [regs[i].dto EXCEPT !.password = Hash(hashedPassword)]
         user == NewUser(userData, 1)
     IN /\ users' = Append(users, user)
        /\ ret' = [op |-> "register", kind |-> "auth", user |-> WithoutPassword(user)]
  /\ regs' = [regs EXCEPT ![i].pc = "returned"]
  /\ created' = created + 1
  /\ UNCHANGED <<queryVars, convVars, apiVars, otherVars>>

\* The response of a register request is sent.
RegisterEnd(i) ==
  /\ regs[i].pc \in {"returned", "threw"}
  /\ regs' = [regs EXCEPT ![i] = NoReg]
  /\ UNCHANGED <<users, ret, queryVars, convVars, apiVars, restVars>>

\* UsersService.create
UsersCreate(createUserDto) ==
  /\ Len(users) < MaxUsers
  /\ created < MaxCreated
  /\ LET userData == [createUserDto EXCEPT !.password = Hash(@)]
         user == NewUser(userData, 1)
     IN /\ users' = Append(users, user)
        /\ ret' = [op |-> "create", kind |-> "user", user |-> user]
  /\ created' = created + 1
  /\ UNCHANGED <<regs, queryVars, convVars, apiVars, otherVars>>

\* UsersService.update of an existing user (<<>> stands for a dto without
\* password): a new password is hashed; the updated item is returned.
UsersUpdate(k, password) ==
  /\ k \in 1..Len(users)
  /\ LET user == [users[k] EXCEPT
                    !.password = IF password # <<>> THEN Hash(password) ELSE @]
     IN /\ users' = [users EXCEPT ![k] = user]
        /\ ret' = [op |-> "update", kind |-> "user", user |-> user]
  /\ UNCHANGED <<regs, queryVars, convVars, apiVars, restVars>>

\* What validateUser returns: the user without password, or <<>> for null.
validateUser(username, password) ==
  LET found == findByUsername(username)
  IN IF found # <<>> /\ Matching(password, found[1].password)
       THEN WithoutPassword(found[1]) ELSE <<>>

ValidateUser(username, password) ==
  /\ LET user == validateUser(username, password)
     IN ret' = IF user = <<>>
                 THEN [op |-> "validateUser", kind |-> "null", user |-> <<>>]
                 ELSE [op |-> "validateUser", kind |-> "user", user |-> user]
  /\ UNCHANGED <<users, regs, queryVars, convVars, apiVars, restVars>>

\* AuthService.login
Login(username, password) ==
  /\ LET user == validateUser(username, password)
     IN ret' = IF user = <<>>
                 THEN [op |-> "login", kind |-> "UnauthorizedException", user |-> <<>>]
                 ELSE [op |-> "login", kind |-> "auth",
                       user |-> [id |-> user.id, username |-> user.username,
                                 email |-> user.email, status |-> user.status]]
  /\ UNCHANGED <<users, regs, queryVars, convVars, apiVars, restVars>>

\* AuthService.getProfile
GetProfile(userId) ==
  /\ LET found == QueryBy("id", userId)
     IN ret' = IF found = <<>>
                 THEN [op |-> "getProfile", kind |-> "UnauthorizedException",
                       user |-> <<>>]
                 ELSE [op |-> "getProfile", kind |-> "user",
                       user |-> WithoutPassword(found[1])]
  /\ UNCHANGED <<users, regs, queryVars, convVars, apiVars, restVars>>

Usernames == { "u1", "u2" }
Passwords == { <<"p1">>, <<"hash", "p1">> }

\* The steps of the i-th register request.
RegisterSteps(i) ==
  \/ \E registerDto \in Dtos : Register(i, registerDto)
  \/ RegisterCheckUsername(i)
  \/ RegisterCheckEmail(i)
  \/ RegisterCreate(i)
  \/ RegisterEnd(i)

RegisterNext == \E i \in 1..MaxRegs : RegisterSteps(i)

\* Registration alone: every interleaving of MaxRegs register requests.
RegisterSpec == AuthInit /\ [][RegisterNext]_vars

\* The services with one request at a time.
AuthNext ==
  \/ RegisterSteps(1)
  \/ \E createUserDto \in Dtos : UsersCreate(createUserDto)
  \/ \E k \in 1..MaxUsers, password \in {<<>>, <<"p2">>} : UsersUpdate(k, password)
  \/ \E username \in Usernames, password \in Passwords :
       ValidateUser(username, password)
  \/ \E username \in Usernames, password \in Passwords : Login(username, password)
  \/ \E userId \in 1..MaxUsers : GetProfile(userId)

AuthSpec == AuthInit /\ [][AuthNext]_vars

(***************************************************************************)
(* DynamoDBService: onModuleInit runs initialize, which awaits             *)
(* testConnection; healthCheck may be asked at any time.  An environment   *)
(* variable that is not set is "", which JavaScript's || and === treat as  *)
(* they treat undefined.                                                   *)
(***************************************************************************)
Envs ==
  [NODE_ENV : {"", "development", "production"},
   AWS_REGION : {"", "us-east-1", "eu-west-1"},
   DYNAMODB_ENDPOINT : {"", "http://dynamodb:8000"}]

\* a || b on strings
OrElse(a, b) == IF a # "" THEN a ELSE b

getRegion == OrElse(env.AWS_REGION, "eu-central-1")
getEnvironment == OrElse(env.NODE_ENV, "dev")

DbInit ==
  /\ env \in Envs
  /\ isConnected = FALSE
  /\ dbPc = "constructed"
  /\ endpoint = ""
  /\ listFailed = FALSE
  /\ health = NoHealth
  /\ table = <<>>
  /\ pc = "idle"
  /\ req = NoReq
  /\ scanQuery = <<>>
  /\ result = NoResult
  /\ err = ""
  /\ pages = <<>>
  /\ scans = 0
  /\ ConvIdle /\ ApiIdle /\ AuthIdle
  /\ created = 0 /\ ReadIdle /\ JwtIdle /\ FrontIdle

\* onModuleInit -> initialize -> testConnection, up to await listTables().
OnModuleInit ==
  /\ dbPc = "constructed"
  /\ endpoint' = IF env.NODE_ENV = "development"
                   THEN OrElse(env.DYNAMODB_ENDPOINT, "http://localhost:8000")
                   ELSE endpoint
  /\ dbPc' = "listTables"
  /\ UNCHANGED <<env, isConnected, listFailed, health>>
  /\ UNCHANGED <<queryVars, convVars, apiVars, authVars, created, calls, jwtVars,
                 frontVars>>

\* testConnection after its await, then the rest of initialize.  Whether
\* listTables resolved or rejected, testConnection returns normally (its
\* catch only logs), so initialize goes on to set isConnected.
testConnection(rejected) ==
  /\ dbPc = "listTables"
  /\ listFailed' = rejected
  /\ isConnected' = TRUE
  /\ dbPc' = "initialized"
  /\ UNCHANGED <<env, endpoint, health>>
  /\ UNCHANGED <<queryVars, convVars, apiVars, authVars, created, calls, jwtVars,
                 frontVars>>

healthCheck ==
  /\ health' = [status |-> IF isConnected THEN "healthy" ELSE "unhealthy",
                region |-> getRegion,
                environment |-> getEnvironment,
                connected |-> isConnected]
  /\ UNCHANGED <<env, isConnected, dbPc, endpoint, listFailed>>
  /\ UNCHANGED <<queryVars, convVars, apiVars, authVars, created, calls, jwtVars,
                 frontVars>>

DbNext ==
  \/ OnModuleInit
  \/ \E rejected \in BOOLEAN : testConnection(rejected)
  \/ healthCheck

DbSpec == DbInit /\ [][DbNext]_vars

(***************************************************************************)
(* processQuery calls running side by side on one table.  An array is an   *)
(* object that a callee could change: a call of applySorting or            *)
(* applyPagination is modelled by what it returns together with what the   *)
(* array it was given holds afterwards.                                    *)
(***************************************************************************)
ReadTables ==
  { <<>>,
    << Item(Str(<<"1">>), Num(2), Str(<<"b">>), Null),
       Item(Str(<<"2">>), Num(1), Str(<<"a">>), Null) >>,
    << Item(Str(<<"1">>), Num(1), Str(<<"a">>), Null),
       Item(Str(<<"2">>), Null, Str(<<"b">>), Null),
       Item(Str(<<"3">>), Num(1), Str(<<"A">>), Null) >> }

ReadRequests ==
  { Request(f, st, p, 1) :
      f \in { <<>>, << F("status", "eq", <<"1">>) >>, << <<"status", "||", "eq">> >>,
              << <<"createdAt", "||", "between">> >> },
      st \in { <<>>, <<"status", ",", "DESC">>, <<"name", ",", "asc">> },
      p \in 1..MaxPage }

\* A variant that sorts the array it is given (data.sort without the copy).
applySortingCallInPlace(data, sort) ==
  [data |-> applySorting(data, sort), returned |-> applySorting(data, sort)]

\* applySorting(data, sort): `[...data].sort(...)` sorts a copy, and an
\* empty sort returns data itself; data is as it was.
applySortingCall(data, sort) ==
  [data |-> data, returned |-> applySorting(data, sort)]

\* applyPagination(data, page, limit): slice copies; data is as it was.
applyPaginationCall(data, page, limit) ==
  [data |-> data, returned |-> applyPagination(data, page, limit)]

ReadInit ==
  /\ table \in ReadTables
  /\ calls = [i \in 1..MaxCalls |-> NoReadCall]
  /\ pc = "idle"
  /\ req = NoReq
  /\ scanQuery = <<>>
  /\ result = NoResult
  /\ err = ""
  /\ pages = <<>>
  /\ scans = 0
  /\ ConvIdle /\ ApiIdle /\ AuthIdle
  /\ created = 0 /\ DbIdle /\ JwtIdle /\ FrontIdle

\* The i-th processQuery call up to its await: model.scan() and the filters.
ReadProcessQuery(i, filters, sort, page, limit) ==
  /\ calls[i].pc = "idle"
  /\ LET q == IF Len(filters) > 0
                THEN applyDynamoDBFilters(<<>>, filters, FieldTypes)
                ELSE [ok |-> TRUE, err |-> "", conds |-> <<>>]
     IN calls' = [calls EXCEPT ![i] =
          [NoReadCall EXCEPT !.req = Request(filters, sort, page, limit),
                             !.pc = IF q.ok THEN "scanning" ELSE "failed",
                             !.scanQuery = q.conds,
                             !.err = q.err]]
  /\ UNCHANGED <<queryVars, convVars, apiVars, authVars, created, dbVars, jwtVars,
                 frontVars>>

\* scanQuery.exec() of the i-th call resolves with a fresh array, which is
\* sorted and paginated; or it rejects for an operand that is no value.
ReadScanExec(i) ==
  /\ calls[i].pc = "scanning"
  /\ LET c == calls[i]
         allData == ScanItems(table, c.scanQuery)
         sorting == applySortingCall(allData, c.req.sort)
         paging == applyPaginationCall(sorting.returned, c.req.page, c.req.limit)
     IN calls' = [calls EXCEPT ![i] =
          IF ValidQuery(c.scanQuery)
            THEN [c EXCEPT !.pc = "done",
                           !.allData = sorting.data,
                           !.sortedData = paging.data,
                           !.result = paging.returned]
            ELSE [c EXCEPT !.pc = "failed", !.err = "ValidationException"]]
  /\ UNCHANGED <<queryVars, convVars, apiVars, authVars, created, dbVars, jwtVars,
                 frontVars>>

\* The caller of the i-th call has its answer.
ReadReturn(i) ==
  /\ calls[i].pc \in {"done", "failed"}
  /\ calls' = [calls EXCEPT ![i] = NoReadCall]
  /\ UNCHANGED <<queryVars, convVars, apiVars, authVars, created, dbVars, jwtVars,
                 frontVars>>

ReadNext ==
  \E i \in 1..MaxCalls :
    \/ \E r \in ReadRequests : ReadProcessQuery(i, r.filters, r.sort, r.page, r.limit)
    \/ ReadScanExec(i)
    \/ ReadReturn(i)

ReadSpec == ReadInit /\ [][ReadNext]_vars

(***************************************************************************)
(* Routes behind JwtAuthGuard.  A client keeps the token of a login        *)
(* response and sends it later; the guard checks signature and expiry,     *)
(* JwtStrategy.validate looks the user up, and the handler runs with the   *)
(* user that validate returned.  Users come and go meanwhile.              *)
(***************************************************************************)
findById(id) == QueryBy("id", id)

\* A variant that takes the payload's word for the user.
validateTrustsPayload(payload) ==
  [threw |-> FALSE,
   user |-> [id |-> payload.sub, username |-> payload.username]]

\* JwtStrategy.validate after its await: the user, or UnauthorizedException.
validate(payload) ==
  LET user == findById(payload.sub)
  IN IF user = <<>> THEN [threw |-> TRUE, user |-> Null]
     ELSE [threw |-> FALSE, user |-> user[1]]

\* The client keeps the access_token of the login response it got: the
\* payload { username, sub } that login signed, not yet expired.
KeepToken ==
  /\ ret.op = "login" /\ ret.kind = "auth"
  /\ tokens' = tokens \cup
       { [username |-> ret.user.username, sub |-> ret.user.id, expired |-> FALSE] }
  /\ UNCHANGED <<guardReq, authVars, queryVars, convVars, apiVars, created, dbVars,
                 calls, frontVars>>

\* The 24 hours of a token are over.
TokenExpires(token) ==
  /\ token \in tokens /\ ~token.expired
  /\ tokens' = (tokens \ {token}) \cup {[token EXCEPT !.expired = TRUE]}
  /\ UNCHANGED <<guardReq, authVars, queryVars, convVars, apiVars, created, dbVars,
                 calls, frontVars>>

\* UsersService.remove
UsersRemove(id) ==
  /\ users' = SelectSeq(users, LAMBDA u : u.id # id)
  /\ ret' = [op |-> "remove", kind |-> "none", user |-> <<>>]
  /\ UNCHANGED <<regs, queryVars, convVars, apiVars, restVars>>

\* A request with a token arrives at JwtAuthGuard: an expired token is
\* turned away, otherwise validate starts and awaits findById.
GuardRequest(token) ==
  /\ guardReq.pc = "idle"
  /\ token \in tokens
  /\ guardReq' = IF token.expired
       THEN [NoGuardReq EXCEPT !.pc = "done", !.payload = token,
                               !.outcome = "UnauthorizedException"]
       ELSE [NoGuardReq EXCEPT !.pc = "validate", !.payload = token]
  /\ UNCHANGED <<tokens, authVars, queryVars, convVars, apiVars, created, dbVars,
                 calls, frontVars>>

\* validate resumes: it throws, or the request goes on to the handler with
\* req.user set.
GuardValidate ==
  /\ guardReq.pc = "validate"
  /\ LET v == validate(guardReq.payload)
     IN guardReq' = IF v.threw
          THEN [guardReq EXCEPT !.pc = "done", !.outcome = "UnauthorizedException"]
          ELSE [guardReq EXCEPT !.pc = "handler", !.user = v.user]
  /\ UNCHANGED <<tokens, authVars, queryVars, convVars, apiVars, created, dbVars,
                 calls, frontVars>>

\* AuthController.getProfile: authService.getProfile(req.user.id)
GuardHandler ==
  /\ guardReq.pc = "handler"
  /\ LET found == findById(guardReq.user.id)
     IN ret' = IF found = <<>>
                 THEN [op |-> "getProfile", kind |-> "UnauthorizedException",
                       user |-> <<>>]
                 ELSE [op |-> "getProfile", kind |-> "user",
                       user |-> WithoutPassword(found[1])]
  /\ guardReq' = [guardReq EXCEPT !.pc = "done", !.outcome = "handled"]
  /\ UNCHANGED <<tokens, users, regs, queryVars, convVars, apiVars, created, dbVars,
                 calls, frontVars>>

\* The response of the request is sent.
GuardEnd ==
  /\ guardReq.pc = "done"
  /\ guardReq' = NoGuardReq
  /\ UNCHANGED <<tokens, authVars, queryVars, convVars, apiVars, created, dbVars,
                 calls, frontVars>>

JwtNext ==
  \/ \E createUserDto \in Dtos : UsersCreate(createUserDto)
  \/ \E username \in Usernames : Login(username, <<"p1">>)
  \/ KeepToken
  \/ \E token \in tokens : TokenExpires(token)
  \/ \E id \in 1..MaxCreated : UsersRemove(id)
  \/ \E token \in tokens : GuardRequest(token)
  \/ GuardValidate
  \/ GuardHandler
  \/ GuardEnd

JwtSpec == AuthInit /\ [][JwtNext]_vars

(***************************************************************************)
(* The admin front end: useAuthStore, the AuthService that keeps the token *)
(* and the user in localStorage, the apiClient, and the router with        *)
(* conditionalGuard.  A token is the payload the server signed; expired    *)
(* says whether its exp lies in the past.  What the store operations do to *)
(* the store, localStorage and the apiClient is written as functions of    *)
(* those three, because the operations call one another.                   *)
(***************************************************************************)
FrontUsers ==
  { [id |-> 1, username |-> "u1", status |-> 1],
    [id |-> 2, username |-> "u2", status |-> 0] }

UserNamed(username) == CHOOSE u \in FrontUsers : u.username = username

Token(user) == [sub |-> user.id, expired |-> FALSE]

Front == [store |-> store, localStorage |-> localStorage, apiToken |-> apiToken]

\* AuthService.isAuthenticated: a token is stored and its exp is ahead.
authService_isAuthenticated(fs) ==
  fs.localStorage.access_token # Null /\ ~fs.localStorage.access_token.expired

\* apiConfigService.applyCurrentAuth
applyCurrentAuth(fs) ==
  [fs EXCEPT !.apiToken =
     IF authService_isAuthenticated(fs) THEN fs.localStorage.access_token ELSE Null]

\* useAuthStore.logout: authService.logout(), the state, apiConfigService.clearAuth()
logout(fs) ==
  [store |-> [fs.store EXCEPT !.isAuthenticated = FALSE, !.user = Null,
                              !.loginError = "", !.registerError = ""],
   localStorage |-> [access_token |-> Null, user_data |-> Null],
   apiToken |-> Null]

\* useAuthStore.initializeAuth
initializeAuth(fs) ==
  LET token == fs.localStorage.access_token
      user == fs.localStorage.user_data
  IN IF token # Null /\ user # Null /\ authService_isAuthenticated(fs)
       THEN [fs EXCEPT !.store.isAuthenticated = TRUE, !.store.user = user]
       ELSE [fs EXCEPT !.localStorage = [access_token |-> Null, user_data |-> Null],
                       !.store.isAuthenticated = FALSE,
                       !.store.user = Null]

\* A variant that believes the store without looking at the token.
checkAuthTrustsStore(fs) ==
  [isValid |-> fs.store.isAuthenticated, fs |-> fs]

\* useAuthStore.checkAuth: what it returns and what it leaves behind.
checkAuth(fs) ==
  LET isValid == authService_isAuthenticated(fs)
  IN [isValid |-> isValid,
      fs |-> IF ~isValid /\ fs.store.isAuthenticated THEN logout(fs) ELSE fs]

hasStatus(fs, status) == fs.store.user # Null /\ fs.store.user.status = status

\* The routes of the router by the path a navigation asks for: the redirect
\* of the route record ("" for none) and the meta fields that some record
\* of to.matched carries.  A path that matches no record has no meta.
Route(redirect, requiresAuth, requiresGuest) ==
  [redirect |-> redirect, requiresAuth |-> requiresAuth,
   requiresGuest |-> requiresGuest, requiresAdmin |-> FALSE]

Paths ==
  { "/", "/dashboard", "/orders", "/orders/list", "/orders/add",
    "/orders/update/1", "/pages", "/pages/404", "/pages/500", "/pages/login",
    "/nowhere" }

routes(path) ==
  CASE path = "/" -> Route("/dashboard", TRUE, FALSE)
    [] path = "/orders" -> Route("/orders/list", TRUE, FALSE)
    [] path \in {"/dashboard", "/orders/list", "/orders/add", "/orders/update/1"}
         -> Route("", TRUE, FALSE)
    [] path = "/pages" -> Route("/pages/404", FALSE, FALSE)
    [] path \in {"/pages/404", "/pages/500", "/pages/login"} -> Route("", FALSE, TRUE)
    [] OTHER -> Route("", FALSE, FALSE)

\* The router follows the redirect of a route record before any guard runs.
RECURSIVE Resolved(_)
Resolved(path) ==
  IF routes(path).redirect # "" THEN Resolved(routes(path).redirect) ELSE path

\* What a guard answers: next() is next |-> "", next(target) names the path.
Proceed(fs) == [next |-> "", redirect |-> "", fs |-> fs]
RedirectTo(path, redirect, fs) == [next |-> path, redirect |-> redirect, fs |-> fs]

\* A variant that asks the store on guest routes and the token on protected
\* routes, and logs nobody out.
conditionalGuardNoLogout(fs, to) ==
  IF routes(to).requiresGuest
    THEN IF fs.store.isAuthenticated THEN RedirectTo("/dashboard", "", fs)
         ELSE Proceed(fs)
  ELSE IF routes(to).requiresAuth /\ ~authService_isAuthenticated(fs)
    THEN RedirectTo("/pages/login", to, fs)
  ELSE Proceed(fs)

\* conditionalGuard(to, from, next).  && and || call checkAuth only when the
\* store's flag does not settle the condition.
conditionalGuard(fs, to) ==
  LET c == IF fs.store.isAuthenticated THEN checkAuth(fs)
           ELSE [isValid |-> FALSE, fs |-> fs]
      authenticated == fs.store.isAuthenticated /\ c.isValid
  IN IF routes(to).requiresGuest
       THEN IF authenticated THEN RedirectTo("/dashboard", "", c.fs)
            ELSE Proceed(c.fs)
     ELSE IF routes(to).requiresAuth
       THEN IF ~authenticated THEN RedirectTo("/pages/login", to, c.fs)
            ELSE IF routes(to).requiresAdmin /\ ~hasStatus(c.fs, 1)
              THEN RedirectTo("/dashboard", "", c.fs)
            ELSE Proceed(c.fs)
     ELSE Proceed(fs)

\* localStorage as an earlier visit left it: empty, or the token and the user
\* of a login, the token still good or expired by now.
Storages ==
  { [access_token |-> Null, user_data |-> Null] }
  \cup
  { [access_token |-> [Token(u) EXCEPT !.expired = e], user_data |-> u] :
      u \in FrontUsers, e \in BOOLEAN }

FrontInit ==
  /\ store = NoStore
  /\ localStorage \in Storages
  /\ apiToken = localStorage.access_token
  /\ inflight = {}
  /\ nav = NoNav
  /\ table = <<>>
  /\ pc = "idle"
  /\ req = NoReq
  /\ scanQuery = <<>>
  /\ result = NoResult
  /\ err = ""
  /\ pages = <<>>
  /\ scans = 0
  /\ ConvIdle /\ ApiIdle /\ AuthIdle
  /\ created = 0 /\ DbIdle /\ ReadIdle /\ JwtIdle

\* The store, localStorage and the apiClient become what an operation left.
Becomes(fs) ==
  /\ store' = fs.store
  /\ localStorage' = fs.localStorage
  /\ apiToken' = fs.apiToken

\* Event handlers run to completion: the router goes from push through the
\* guard, its redirects and the end of the navigation in one chain of
\* promise reactions, and nothing else runs in between.
Settled == nav.pc = "idle"

\* The application starts: initializeAuth, then applyCurrentAuth.
InitializeAuth ==
  /\ Settled
  /\ Becomes(applyCurrentAuth(initializeAuth(Front)))
  /\ UNCHANGED <<inflight, nav>>
  /\ UNCHANGED <<queryVars, convVars, apiVars, authVars, created, dbVars, calls,
                 jwtVars>>

\* login up to the await of the request.
StoreLogin(username) ==
  /\ Settled
  /\ Cardinality(inflight) < MaxInflight
  /\ [op |-> "login", username |-> username, sent |-> Null] \notin inflight
  /\ store' = [store EXCEPT !.isLoading = TRUE, !.loginError = ""]
  /\ inflight' = inflight \cup {[op |-> "login", username |-> username, sent |-> Null]}
  /\ UNCHANGED <<localStorage, apiToken, nav>>
  /\ UNCHANGED <<queryVars, convVars, apiVars, authVars, created, dbVars, calls,
                 jwtVars>>

\* register up to the await of the request.
StoreRegister(username) ==
  /\ Settled
  /\ Cardinality(inflight) < MaxInflight
  /\ [op |-> "register", username |-> username, sent |-> Null] \notin inflight
  /\ store' = [store EXCEPT !.isLoading = TRUE, !.registerError = ""]
  /\ inflight' = inflight \cup
                   {[op |-> "register", username |-> username, sent |-> Null]}
  /\ UNCHANGED <<localStorage, apiToken, nav>>
  /\ UNCHANGED <<queryVars, convVars, apiVars, authVars, created, dbVars, calls,
                 jwtVars>>

\* The answer to a login or register request: with ok the AuthService keeps
\* the token and the user and the store takes them over; otherwise the
\* message of the error is kept.  finally: isLoading = false.
StoreAnswer(r, ok) ==
  /\ Settled
  /\ r \in inflight /\ r.op \in {"login", "register"}
  /\ inflight' = inflight \ {r}
  /\ LET user == UserNamed(r.username)
         kept == [Front EXCEPT !.localStorage =
                    [access_token |-> Token(user), user_data |-> user]]
         taken == [kept EXCEPT !.store.isAuthenticated = TRUE, !.store.user = user]
         failed == IF r.op = "login"
                     THEN [Front EXCEPT !.store.loginError = "Login failed"]
                     ELSE [Front EXCEPT !.store.registerError = "Registration failed"]
         after == IF ok THEN applyCurrentAuth(taken) ELSE failed
     IN Becomes([after EXCEPT !.store.isLoading = FALSE])
  /\ UNCHANGED nav
  /\ UNCHANGED <<queryVars, convVars, apiVars, authVars, created, dbVars, calls,
                 jwtVars>>

\* useAuthStore.logout
StoreLogout ==
  /\ Settled
  /\ Becomes(logout(Front))
  /\ UNCHANGED <<inflight, nav>>
  /\ UNCHANGED <<queryVars, convVars, apiVars, authVars, created, dbVars, calls,
                 jwtVars>>

\* refreshProfile up to the await: the request carries the stored token.
RefreshProfile ==
  /\ Settled
  /\ Cardinality(inflight) < MaxInflight
  /\ inflight' = inflight \cup
       {[op |-> "refreshProfile", username |-> "", sent |-> localStorage.access_token]}
  /\ UNCHANGED <<store, localStorage, apiToken, nav>>
  /\ UNCHANGED <<queryVars, convVars, apiVars, authVars, created, dbVars, calls,
                 jwtVars>>

\* The answer to the profile request.  The server answers with the profile
\* only to a good token; any request can fail.  With the profile the store
\* and localStorage take it; on failure the store logs out.
RefreshProfileAnswer(r, ok) ==
  /\ Settled
  /\ r \in inflight /\ r.op = "refreshProfile"
  /\ ok => (r.sent # Null /\ ~r.sent.expired)
  /\ inflight' = inflight \ {r}
  /\ LET profile == CHOOSE u \in FrontUsers : u.id = r.sent.sub
     IN Becomes(IF ok
          THEN [Front EXCEPT !.store.user = profile, !.localStorage.user_data = profile]
          ELSE logout(Front))
  /\ UNCHANGED nav
  /\ UNCHANGED <<queryVars, convVars, apiVars, authVars, created, dbVars, calls,
                 jwtVars>>

\* useAuthStore.checkAuth called by a component.
StoreCheckAuth ==
  /\ Settled
  /\ Becomes(checkAuth(Front).fs)
  /\ UNCHANGED <<inflight, nav>>
  /\ UNCHANGED <<queryVars, convVars, apiVars, authVars, created, dbVars, calls,
                 jwtVars>>

\* Time passes the exp of the stored token.
StoredTokenExpires ==
  /\ Settled
  /\ localStorage.access_token # Null /\ ~localStorage.access_token.expired
  /\ localStorage' = [localStorage EXCEPT !.access_token.expired = TRUE]
  /\ apiToken' = IF apiToken = localStorage.access_token
                   THEN [apiToken EXCEPT !.expired = TRUE] ELSE apiToken
  /\ inflight' = { IF r.sent = localStorage.access_token
                     THEN [r EXCEPT !.sent.expired = TRUE] ELSE r : r \in inflight }
  /\ UNCHANGED <<store, nav>>
  /\ UNCHANGED <<queryVars, convVars, apiVars, authVars, created, dbVars, calls,
                 jwtVars>>

\* router.push(path): the redirects of the route records are followed and
\* the navigation waits for the guard.
RouterPush(path) ==
  /\ nav.pc = "idle"
  /\ nav' = [pc |-> "guard", to |-> Resolved(path), redirect |-> "", redirects |-> 0]
  /\ UNCHANGED <<store, localStorage, apiToken, inflight>>
  /\ UNCHANGED <<queryVars, convVars, apiVars, authVars, created, dbVars, calls,
                 jwtVars>>

\* router.beforeEach(conditionalGuard): the guard runs once; next() confirms
\* the navigation, next(target) starts the navigation to the target.
BeforeEach ==
  /\ nav.pc = "guard"
  /\ nav.redirects < MaxRedirects
  /\ LET g == conditionalGuard(Front, nav.to)
     IN /\ Becomes(g.fs)
        /\ nav' = IF g.next = ""
                    THEN [nav EXCEPT !.pc = "done"]
                    ELSE [pc |-> "guard", to |-> Resolved(g.next),
                          redirect |-> g.redirect, redirects |-> nav.redirects + 1]
  /\ UNCHANGED inflight
  /\ UNCHANGED <<queryVars, convVars, apiVars, authVars, created, dbVars, calls,
                 jwtVars>>

\* The view of the route is shown; the next navigation may start.
Navigated ==
  /\ nav.pc = "done"
  /\ nav' = NoNav
  /\ UNCHANGED <<store, localStorage, apiToken, inflight>>
  /\ UNCHANGED <<queryVars, convVars, apiVars, authVars, created, dbVars, calls,
                 jwtVars>>

\* The store under every interleaving of its operations.
StoreNext ==
  \/ InitializeAuth
  \/ \E username \in {"u1", "u2"} : StoreLogin(username)
  \/ \E username \in {"u1", "u2"} : StoreRegister(username)
  \/ \E r \in inflight, ok \in BOOLEAN : StoreAnswer(r, ok)
  \/ StoreLogout
  \/ RefreshProfile
  \/ \E r \in inflight, ok \in BOOLEAN : RefreshProfileAnswer(r, ok)
  \/ StoreCheckAuth
  \/ StoredTokenExpires

StoreSpec == FrontInit /\ [][StoreNext]_vars

\* The router while users log in and out and tokens expire.
GuardNext ==
  \/ InitializeAuth
  \/ StoreLogin("u1")
  \/ \E r \in inflight, ok \in BOOLEAN : StoreAnswer(r, ok)
  \/ StoreLogout
  \/ StoredTokenExpires
  \/ \E path \in Paths : RouterPush(path)
  \/ BeforeEach
  \/ Navigated

GuardSpec == FrontInit /\ [][GuardNext]_vars

(***************************************************************************)
(* OrdersService: the queries it builds for findAllPaginated.  A Date is   *)
(* given by its month and day; toISOString().split('T')[0] is its          *)
(* yyyy-mm-dd text.                                                        *)
(***************************************************************************)
\* `status:${status}`
StatusFilter(status) == <<"status", ":">> \o NatToDigits(status)

\* `createdAt:${startDateStr},${endDateStr}`
DateRangeFilter(startDateStr, endDateStr) ==
  <<"createdAt", ":">> \o startDateStr \o <<",">> \o endDateStr

OrderStatuses == 1..3
OrderDates == { <<1, 1>>, <<1, 15>>, <<1, 31>> }

OrdersInit ==
  /\ table \in { WithIds(t) : t \in SeqsUpTo(FilterEntities, MaxFilterRecords) }
  /\ pc = "idle"
  /\ req = NoReq
  /\ scanQuery = <<>>
  /\ result = NoResult
  /\ err = ""
  /\ pages = <<>>
  /\ scans = 0
  /\ ConvIdle /\ ApiIdle /\ AuthIdle /\ RestIdle

\* getOrdersByStatus up to the await inside findAllPaginated.
getOrdersByStatus(status) ==
  ProcessQuery(<< StatusFilter(status) >>, <<>>, 1, 1000)

\* getOrdersByDateRange up to the await inside findAllPaginated.
getOrdersByDateRange(startDate, endDate) ==
  LET startDateStr == IsoDate(startDate[1], startDate[2])
      endDateStr == IsoDate(endDate[1], endDate[2])
  IN ProcessQuery(<< DateRangeFilter(startDateStr, endDateStr) >>, <<>>, 1, 1000)

\* The two queries of the service; the scan of either resolves or fails, and
\* result.data is what the service returns.  (No query of the two puts a
\* condition on the scan, so the store has no operand to reject.)
OrdersNext ==
  \/ \E status \in OrderStatuses : getOrdersByStatus(status)
  \/ \E startDate \in OrderDates, endDate \in OrderDates :
       getOrdersByDateRange(startDate, endDate)
  \/ ScanExec
  \/ ScanFail
  \/ Return

OrdersSpec == OrdersInit /\ [][OrdersNext]_vars

(***************************************************************************)
(* applyPagination with any page number that parseInt can give the         *)
(* controller: below 1 as well as above the last page.                     *)
(***************************************************************************)
PageNumbers == (0 - MaxPagesBack)..MaxPageNo

\* applyPagination(data, page, limit) for one page number.
Paginate(page) ==
  /\ pc = "idle"
  /\ req' = [req EXCEPT !.page = page]
  /\ result' = applyPagination(table, page, req.limit)
  /\ pc' = "done"
  /\ UNCHANGED <<table, scanQuery, err, pages, scans>>
  /\ UNCHANGED <<convVars, apiVars, authVars, restVars>>

AnyPageNext == \E page \in PageNumbers : Paginate(page)

AnyPageSpec == PageInit /\ [][AnyPageNext]_vars

(***************************************************************************)
(* What the claims speak of.                                               *)
(***************************************************************************)
\* The parts of a filter string.
FieldOf(filterStr) == Part(Split(filterStr, "||"), 1)
OperatorOf(filterStr) == Part(Split(filterStr, "||"), 2)
ValueOf(filterStr) == Part(Split(filterStr, "||"), 3)

\* The operators that applyDynamoDBFilters has a case for.
RecognizedOperators ==
  { <<"eq">>, <<"ne">>, <<"cont">>, <<"between">>, <<"gt">>, <<"gte">>,
    <<"lt">>, <<"lte">>, <<"isnull">>, <<"notnull">> }

\* The closed operator set of the specification.
ClosedOperators ==
  RecognizedOperators \cup { <<"starts">>, <<"ends">>, <<"excl">> }

\* A filter string with too few parts: no operator, or no value for an
\* operator that takes one.
Malformed(filterStr) ==
  \/ OperatorOf(filterStr) = Undefined
  \/ /\ OperatorOf(filterStr) \in ClosedOperators \ { <<"isnull">>, <<"notnull">> }
     /\ ValueOf(filterStr) = Undefined

\* Whether an item satisfies a condition, read as the operator table reads
\* it: the item's field value against the coerced filter value.
Satisfies(item, filterStr) ==
  LET a == GetField(item, FieldOf(filterStr))
      op == OperatorOf(filterStr)
      raw == ValueOf(filterStr)
      v == convertFilterValue(FieldOf(filterStr), raw, FieldTypes)
      ends == Split(raw, ",")
  IN CASE op = <<"eq">> -> a = v
       [] op = <<"ne">> -> a # v
       [] op = <<"cont">> -> a.t = "str" /\ raw # Undefined /\ IsSubstring(raw, a.s)
       [] op = <<"gt">> -> StoreCompare(a, v) = 1
       [] op = <<"gte">> -> StoreCompare(a, v) \in {0, 1}
       [] op = <<"lt">> -> StoreCompare(a, v) = -1
       [] op = <<"lte">> -> StoreCompare(a, v) \in {-1, 0}
       [] op = <<"between">> ->
            /\ raw # Undefined
            /\ Len(ends) >= 2
            /\ StoreCompare(a, Str(decodeURIComponent(ends[1]))) \in {0, 1}
            /\ StoreCompare(a, Str(decodeURIComponent(ends[2]))) \in {-1, 0}
       [] op = <<"isnull">> -> IsNullish(a)
       [] op = <<"notnull">> -> ~IsNullish(a)
       [] OTHER -> TRUE

ElemsOf(x) == { x[i] : i \in 1..Len(x) }

\* A `between` whose value names no second endpoint.
OneEndpoint(filterStr) ==
  /\ OperatorOf(filterStr) = <<"between">>
  /\ ValueOf(filterStr) # Undefined
  /\ ~Includes(ValueOf(filterStr), ",")

\* C1 as stated: every item of the returned data satisfies every filter
\* condition whose operator is recognized.
C1_AllRecognizedSatisfied ==
  (pc = "done") =>
    \A item \in ElemsOf(result.data) : \A f \in ElemsOf(req.filters) :
      (OperatorOf(f) \in RecognizedOperators) => Satisfies(item, f)

\* C1 (amended): every item of the returned data satisfies every filter
\* condition whose operator is recognized, except a `between` condition
\* whose value has no comma, which is ignored.
C1_DataSatisfiesFilters ==
  (pc = "done") =>
    \A item \in ElemsOf(result.data) : \A f \in ElemsOf(req.filters) :
      (OperatorOf(f) \in RecognizedOperators /\ ~OneEndpoint(f))
        => Satisfies(item, f)

\* Two recognized, well-formed conditions were applied to a table of which
\* they keep one item and drop another.
C1_Witness ==
  /\ pc = "done"
  /\ Len(req.filters) = 2
  /\ req.filters[1] # req.filters[2]
  /\ \A f \in ElemsOf(req.filters) :
       OperatorOf(f) \in RecognizedOperators /\ ~OneEndpoint(f) /\ ~Malformed(f)
  /\ Len(table) = 2
  /\ Len(result.data) = 1
  /\ \E item \in ElemsOf(table) :
       Satisfies(item, req.filters[1]) /\ ~Satisfies(item, req.filters[2])

\* C2: in every result of applyPagination with page >= 1 and limit >= 1,
\* count is the number of records in data and is at most limit.
C2_CountIsLenAtMostLimit ==
  \A k \in 1..Len(pages) :
    /\ pages[k].count = Len(pages[k].data)
    /\ pages[k].count <= req.limit

\* A last page that is neither empty nor full, after a full one.
C2_Witness ==
  \E k \in 2..Len(pages) :
    /\ pages[k - 1].count = req.limit
    /\ pages[k].count > 0
    /\ pages[k].count < req.limit

\* C3: pageCount is ceil(total / limit), the least number of pages of
\* `limit` records that hold `total` records, and is 0 exactly when total
\* is 0.
C3_PageCountIsCeil ==
  \A k \in 1..Len(pages) :
    /\ pages[k].pageCount * req.limit >= pages[k].total
    /\ (pages[k].pageCount - 1) * req.limit < pages[k].total
    /\ (pages[k].pageCount = 0) <=> (pages[k].total = 0)

\* A total that the limit does not divide, on more than one page.
C3_Witness ==
  \E k \in 1..Len(pages) :
    /\ pages[k].total % req.limit # 0
    /\ pages[k].pageCount >= 2

RECURSIVE SumCounts(_, _)
SumCounts(ps, k) == IF k = 0 THEN 0 ELSE ps[k].count + SumCounts(ps, k - 1)

\* The pages 1..pageCount of the array have all been read.
AllPagesRead == Len(pages) >= 1 /\ Len(pages) >= pages[1].pageCount

\* C4: for one array and one limit, the pages 1..pageCount partition the
\* array: their counts sum to total and no record is in two pages.
C4_PagesPartition ==
  AllPagesRead =>
    LET n == pages[1].pageCount
    IN /\ SumCounts(pages, n) = Len(table)
       /\ \A k \in 1..n : pages[k].total = Len(table)
       /\ \A k1, k2 \in 1..n :
            (k1 # k2) => ElemsOf(pages[k1].data) \cap ElemsOf(pages[k2].data) = {}
       /\ \A item \in ElemsOf(table) : \E k \in 1..n : item \in ElemsOf(pages[k].data)

\* Three pages or more were read, the last one not full.
C4_Witness ==
  /\ AllPagesRead
  /\ pages[1].pageCount >= 3
  /\ Len(table) % req.limit # 0

\* The scan result of the call in progress, counted item by item.
Passing == { i \in 1..Len(table) :
               \A k \in 1..Len(scanQuery) : Matches(table[i], scanQuery[k]) }

\* seq is in the order of the sort string: no element is in front of one
\* that the comparator puts before it.
Ordered(seq, sort) ==
  LET parts == Split(sort, ",")
      isDesc == Part(parts, 2) # Undefined /\ toUpperCase(Part(parts, 2)) = <<"DESC">>
  IN \A i, j \in 1..Len(seq) :
       (i < j) => ~(comparator(seq[j], seq[i], Part(parts, 1), isDesc) < 0)

\* C5: the data of page p is the slice at zero-based positions
\* [(p-1)*limit, p*limit) of the whole filtered set in sorted order: there
\* is an ordering of all the passing items, in the order of the sort string,
\* whose slice the data is.
C5_PageIsSliceOfSorted ==
  (pc = "done") =>
    LET whole == applySorting(ScanItems(table, scanQuery), req.sort)
        from == (req.page - 1) * req.limit
        to == IF req.page * req.limit < Len(whole)
                THEN req.page * req.limit ELSE Len(whole)
    IN /\ Len(whole) = Cardinality(Passing)
       /\ ElemsOf(whole) = { table[i] : i \in Passing }
       /\ (req.sort # <<>>) => Ordered(whole, req.sort)
       /\ result.data = [i \in 1..(IF to > from THEN to - from ELSE 0) |-> whole[from + i]]

\* Two items pass, the sort is id,DESC, the limit is 1: page 1 is the item
\* created last, total is 2 and pageCount is 2.
C5_Witness ==
  /\ pc = "done"
  /\ req.sort = <<"id", ",", "DESC">>
  /\ req.limit = 1 /\ req.page = 1
  /\ req.filters = << F("status", "eq", <<"1">>) >>
  /\ Len(table) = 2
  /\ result.data = << table[2] >>
  /\ result.total = 2 /\ result.pageCount = 2

\* C6: total is the number of items that passed the filters, whatever the
\* page and the limit; when the offset (page-1)*limit is at or beyond total
\* the call still returns, with empty data and count 0.
C6_TotalIsFilteredCount ==
  (pc = "done") =>
    /\ err = ""
    /\ result.total = Cardinality(Passing)
    /\ ((req.page - 1) * req.limit >= result.total)
         => (result.data = <<>> /\ result.count = 0)

\* A page beyond the last one of a result that is not empty.
C6_Witness ==
  /\ pc = "done"
  /\ result.total > 0
  /\ (req.page - 1) * req.limit >= result.total
  /\ result.total < Len(table)

\* The column the sort string names.
SortFieldOf(sort) == Part(Split(sort, ","), 1)
SortValueOf(item) == GetField(item, SortFieldOf(req.sort))

\* C7: after applySorting with a sort field, every record whose sort-field
\* value is null or missing comes after every record whose value is not,
\* for ASC and for DESC.
C7_NullsLast ==
  (pc = "done" /\ req.sort # <<>>) =>
    /\ Len(result.data) = Len(table)
    /\ \A i, j \in 1..Len(result.data) :
         (i < j) => ~(IsNullish(SortValueOf(result.data[i]))
                      /\ ~IsNullish(SortValueOf(result.data[j])))

\* A descending sort of an array that starts with an absent value and
\* holds values after it.
C7_Witness ==
  /\ pc = "done"
  /\ toUpperCase(Part(Split(req.sort, ","), 2)) = <<"DESC">>
  /\ Len(table) >= 3
  /\ IsNullish(SortValueOf(table[1]))
  /\ ~IsNullish(SortValueOf(table[2]))
  /\ ~IsNullish(SortValueOf(table[3]))

PositionIn(seq, item) == CHOOSE i \in 1..Len(seq) : seq[i] = item

\* C8: applySorting is stable: two records with equal sort-field values
\* (both absent included) keep the order they had in the scan result.
C8_SortIsStable ==
  (pc = "done") =>
    \A i, j \in 1..Len(table) :
      (i < j /\ SortValueOf(table[i]) = SortValueOf(table[j]))
        => PositionIn(result.data, table[i]) < PositionIn(result.data, table[j])

\* The filters without those whose operator is outside the closed set.
RECURSIVE WithoutUnknown(_)
WithoutUnknown(filters) ==
  IF filters = <<>> THEN <<>>
  ELSE IF OperatorOf(Head(filters)) # Undefined
            /\ OperatorOf(Head(filters)) \notin ClosedOperators
    THEN WithoutUnknown(Tail(filters))
    ELSE <<Head(filters)>> \o WithoutUnknown(Tail(filters))

\* What processQuery gives for these arguments when the store answers.
Outcome(items, filters, sort, page, limit) ==
  LET q == IF Len(filters) > 0
             THEN applyDynamoDBFilters(<<>>, filters, FieldTypes)
             ELSE [ok |-> TRUE, err |-> "", conds |-> <<>>]
  IN IF ~q.ok THEN [err |-> q.err, result |-> NoResult]
     ELSE IF ~ValidQuery(q.conds)
       THEN [err |-> "ValidationException", result |-> NoResult]
     ELSE [err |-> "",
           result |-> processResult(ScanItems(items, q.conds), sort, page, limit)]

\* C9: a condition whose operator is outside the closed operator set has no
\* effect: the call ends as it would with that condition removed.
C9_UnknownOperatorNoEffect ==
  (pc \in {"done", "failed"} /\ req # NoReq) =>
    LET o == Outcome(table, WithoutUnknown(req.filters), req.sort, req.page, req.limit)
    IN /\ o.err = err
       /\ (pc = "done") => (o.result = result)

\* An unknown operator next to a condition that drops an item.
C9_Witness ==
  /\ pc = "done"
  /\ Len(req.filters) = 2
  /\ WithoutUnknown(req.filters) = << F("status", "eq", <<"1">>) >>
  /\ Len(table) = 2
  /\ result.total = 1

\* C10: a filter string that does not split into the expected parts is
\* dropped and never aborts the query: a call with such a filter fails only
\* when the scan itself does, never while the scan query is built.
C10_MalformedNeverAborts ==
  (pc = "failed" /\ \E f \in ElemsOf(req.filters) : Malformed(f))
    => (err \in {"StoreFailure", "ValidationException"})

IsPrefix(x, y) == Len(x) <= Len(y) /\ SubSeq(y, 1, Len(x)) = x
IsSuffix(x, y) == Len(x) <= Len(y) /\ SubSeq(y, Len(y) - Len(x) + 1, Len(y)) = x

\* The call in progress had one filter, with this operator.
OneFilter(operators) ==
  /\ pc = "done"
  /\ Len(req.filters) = 1
  /\ OperatorOf(req.filters[1]) \in operators

\* starts, ends and excl as the operator table reads them.
StringMatch(item, filterStr) ==
  LET a == GetField(item, FieldOf(filterStr))
      op == OperatorOf(filterStr)
      v == ValueOf(filterStr)
  IN CASE op = <<"starts">> -> a.t = "str" /\ IsPrefix(v, a.s)
       [] op = <<"ends">> -> a.t = "str" /\ IsSuffix(v, a.s)
       [] OTHER -> ~(a.t = "str" /\ IsSubstring(v, a.s))

\* C11: starts keeps exactly the records whose field value has the filter
\* value as prefix, ends those with it as suffix, excl those whose field
\* value does not contain it.
C11_StartsEndsExclFilter ==
  OneFilter({ <<"starts">>, <<"ends">>, <<"excl">> }) =>
    result.data = SelectSeq(table, LAMBDA item : StringMatch(item, req.filters[1]))

\* C12: cont keeps a record exactly when its field value contains the
\* filter value after both are brought to one case.
C12_ContCaseInsensitive ==
  OneFilter({ <<"cont">> }) =>
    result.data =
      SelectSeq(table, LAMBDA item :
        LET a == GetField(item, FieldOf(req.filters[1]))
        IN /\ a.t = "str"
           /\ IsSubstring(toLowerCase(ValueOf(req.filters[1])), toLowerCase(a.s)))

\* Whether the item's field value lies between the two endpoints of the
\* filter, both included, the endpoints decoded and read as the field's type.
InRange(item, filterStr) ==
  LET field == FieldOf(filterStr)
      a == GetField(item, field)
      ends == Split(ValueOf(filterStr), ",")
      lo == convertFilterValue(field, decodeURIComponent(ends[1]), FieldTypes)
      hi == convertFilterValue(field, decodeURIComponent(ends[2]), FieldTypes)
  IN StoreCompare(a, lo) \in {0, 1} /\ StoreCompare(a, hi) \in {-1, 0}

\* C13: a between condition with the value 'a,b' keeps exactly the records
\* whose field value v satisfies a <= v <= b, the endpoints included and
\* URL-decoded one by one.
C13_BetweenInclusive ==
  (OneFilter({ <<"between">> }) /\ Includes(ValueOf(req.filters[1]), ",")) =>
    result.data = SelectSeq(table, LAMBDA item : InRange(item, req.filters[1]))

\* The spellings of 'true' in the alphabet.
TrueIgnoringCase == { <<"true">>, <<"TRUE">>, <<"True">> }

Filtered(items, filters) ==
  ScanItems(items, applyDynamoDBFilters(<<>>, filters, FieldTypes).conds)

\* C15: the records matched by [C1, C2] are those obtained by filtering with
\* [C1] and filtering the result with [C2]; the order of the conditions
\* does not change the matched set.
C15_AndComposition ==
  (pc = "done" /\ Len(req.filters) = 2) =>
    LET c1 == req.filters[1]
        c2 == req.filters[2]
    IN /\ result.data = Filtered(Filtered(table, <<c1>>), <<c2>>)
       /\ result.data = Filtered(table, <<c2, c1>>)

\* Two conditions that each keep an item and together keep none.
C15_Witness ==
  /\ pc = "done"
  /\ Len(req.filters) = 2
  /\ Len(table) = 2
  /\ Filtered(table, <<req.filters[1]>>) = <<table[1]>>
  /\ Filtered(table, <<req.filters[2]>>) = <<table[2]>>
  /\ result.data = <<>>

\* C16: applySorting is idempotent: sorting its output again with the same
\* sort string gives the same order, also with several absent values and
\* with values of more than one type in the column.
C16_SortIsIdempotent ==
  (pc = "done") => (applySorting(result.data, req.sort) = result.data)

\* A sort that moved items of a column with two absent values, a number
\* and a string.
C16_Witness ==
  /\ pc = "done"
  /\ req.sort # <<>>
  /\ result.data # table
  /\ \E i, j \in 1..Len(table) :
       i # j /\ IsNullish(SortValueOf(table[i])) /\ IsNullish(SortValueOf(table[j]))
  /\ \E i, j \in 1..Len(table) :
       SortValueOf(table[i]).t = "num" /\ SortValueOf(table[j]).t = "str"

C18_Only401ClearsAuth ==
  [][ (apiCall.pc = "fetching" /\ apiCall'.pc \in {"returned", "threw"}) =>
        /\ (apiCall'.status = 401) =>
             /\ apiCall'.pc = "threw"
             /\ apiCall'.error = "Authentication required"
             /\ ~isAuthenticated'
        /\ (apiCall'.status # 401) =>
             /\ authInfo' = authInfo
             /\ (apiCall'.status \in 200..299) <=> (apiCall'.pc = "returned")
             /\ (apiCall'.pc = "threw") => (apiCall'.error # "")
    ]_vars

\* A request that carried authentication headers was answered with 401.
C18_Witness ==
  /\ apiCall.pc = "threw"
  /\ apiCall.status = 401
  /\ apiCall.data # Null
  /\ ~isAuthenticated

\* C19: registration keeps usernames unique: in every interleaving of
\* register calls no two users hold the same username, and a register call
\* for a username that exists fails with a conflict and creates nothing.
C19_UsernamesUnique ==
  \A j, k \in 1..Len(users) : (j # k) => users[j].username # users[k].username

\* C20: no user object returned to a caller carries the password field.
C20_NoPasswordReturned ==
  (ret.kind \in {"user", "auth"}) => ("password" \notin DOMAIN ret.user)

\* C21: DynamoDBService reports connected/healthy only when the connection
\* test succeeded: once the listTables call of testConnection has failed,
\* isConnected is false and healthCheck answers 'unhealthy'.
C21_HealthyOnlyIfListed ==
  listFailed =>
    /\ ~isConnected
    /\ health # NoHealth => health.status = "unhealthy" /\ ~health.connected

\* C22: the query path is read-only.  No step of a processQuery call
\* changes the table; the array a call got from its scan and the array
\* applySorting returned are, when the call is done, what they were when
\* they were made; and each of the calls running side by side answers as it
\* would alone on that table.
C22_CallsOnlyRead ==
  \A i \in 1..MaxCalls :
    LET c == calls[i]
        o == Outcome(table, c.req.filters, c.req.sort, c.req.page, c.req.limit)
    IN /\ c.pc = "done" =>
            /\ c.allData = ScanItems(table, c.scanQuery)
            /\ c.sortedData = applySorting(ScanItems(table, c.scanQuery), c.req.sort)
            /\ o.err = "" /\ c.result = o.result
       /\ c.pc = "failed" => o.err = c.err

C22_TableUntouched == [][table' = table]_vars

SaysDesc ==
  LET parts == Split(req.sort, ",")
  IN Len(parts) >= 2 /\ toLowerCase(parts[2]) = <<"desc">>

\* The values that are present, in the order of the array.
PresentValues(data) ==
  LET all == [i \in 1..Len(data) |-> SortValueOf(data[i])]
  IN SelectSeq(all, LAMBDA v : ~IsNullish(v))

OneType(values) ==
  \/ \A i \in 1..Len(values) : values[i].t = "num"
  \/ \A i \in 1..Len(values) : values[i].t = "str"

\* a is not after b in ascending order, for two values of one type.
NotAfter(a, b) ==
  IF a.t = "num" THEN a.n <= b.n ELSE localeCompare(a.s, b.s) <= 0

\* C23: applySorting sorts descending exactly when the direction of the sort
\* string is 'DESC' ignoring case, and ascending for any other or missing
\* direction; for present values of one type the descending order is the
\* ascending order reversed; an empty sort string returns the scan order.
C23_SortStringParsed ==
  (pc = "done") =>
    LET out == PresentValues(result.data)
        f == SortFieldOf(req.sort)
    IN /\ req.sort = <<>> => result.data = table
       /\ (req.sort # <<>> /\ OneType(out)) =>
            /\ \A i \in 1..(Len(out) - 1) :
                 IF SaysDesc THEN NotAfter(out[i + 1], out[i])
                             ELSE NotAfter(out[i], out[i + 1])
            /\ PresentValues(applySorting(table, f \o <<",", "DESC">>))
                 = Reverse(PresentValues(applySorting(table, f \o <<",", "ASC">>)))

\* A sort with direction 'Desc' of a column that held two different numbers
\* in ascending order.
C23_Witness ==
  /\ pc = "done"
  /\ req.sort = <<"status", ",", "Desc">>
  /\ Len(table) >= 2
  /\ table[1].status = Num(2) /\ table[2].status = Num(10)
  /\ PresentValues(result.data) = <<Num(10), Num(2)>>

\* C24: a user who has registered with a username and a password can log in
\* with them: when register has returned, validateUser accepts the
\* registered credentials.
C24_RegisteredCanLogin ==
  \A i \in 1..MaxRegs :
    (regs[i].pc = "returned") =>
      validateUser(regs[i].dto.username, regs[i].dto.password) # <<>>

\* The user with this id was created and is no longer in the table.
Removed(id) == id \in 1..created /\ findById(id) = <<>>

\* C25: a JWT issued at login stops granting access once its user is
\* deleted.  A user that is removed stays removed (no id is given twice); a
\* request whose token names a removed user leaves validate with
\* UnauthorizedException and never enters the handler; and a request is in
\* the handler only with the user that validate found.
C25_RemovedStaysRemoved ==
  [][\A t \in tokens : Removed(t.sub) => (t.sub \in 1..created' /\ QueryBy("id", t.sub)' = <<>>)]_vars

C25_RemovedIsTurnedAway ==
  [][(guardReq.pc = "validate" /\ Removed(guardReq.payload.sub) /\ guardReq' # guardReq)
       => (guardReq'.pc = "done" /\ guardReq'.outcome = "UnauthorizedException")]_vars

C25_HandlerHasValidatedUser ==
  (guardReq.pc = "handler" \/ guardReq.outcome = "handled") =>
    (guardReq.user # Null /\ guardReq.user.id = guardReq.payload.sub
       /\ ~guardReq.payload.expired)

C25_DeletedUserTokenRejected ==
  /\ C25_RemovedStaysRemoved
  /\ C25_RemovedIsTurnedAway
  /\ []C25_HandlerHasValidatedUser

\* A request with an unexpired token of a removed user has been answered
\* with UnauthorizedException.
C25_Witness ==
  /\ guardReq.pc = "done"
  /\ guardReq.outcome = "UnauthorizedException"
  /\ ~guardReq.payload.expired
  /\ Removed(guardReq.payload.sub)

\* The stored token is there and has not expired.
TokenUnexpired ==
  localStorage.access_token # Null /\ ~localStorage.access_token.expired

LoggedOut ==
  /\ ~store.isAuthenticated /\ store.user = Null
  /\ localStorage = NoStorage /\ apiToken = Null

\* C26: on a route marked requiresAuth the guard lets the navigation proceed
\* only when the store is authenticated and the stored token is unexpired;
\* in every other case it redirects to /pages/login with the target path as
\* the redirect query and the store is not authenticated afterwards, and a
\* store that was authenticated on a missing or expired token is logged out.
C26_GuardStep ==
  (nav.pc = "guard" /\ routes(nav.to).requiresAuth /\ nav' # nav) =>
    IF store.isAuthenticated /\ TokenUnexpired
      THEN /\ nav' = [nav EXCEPT !.pc = "done"]
           /\ UNCHANGED <<store, localStorage, apiToken>>
      ELSE /\ nav'.pc = "guard" /\ nav'.to = "/pages/login"
           /\ nav'.redirect = nav.to
           /\ ~store'.isAuthenticated
           /\ store.isAuthenticated => LoggedOut'

C26_ProtectedRoutesGuarded == [][C26_GuardStep]_vars

\* The guard has sent a navigation to a protected route on to the login
\* page because the token of an authenticated store had expired.
C26_Witness ==
  /\ nav.pc = "guard" /\ nav.redirects = 1
  /\ nav.to = "/pages/login" /\ nav.redirect = "/orders/update/1"
  /\ LoggedOut
  /\ inflight = {}

\* C27: route guarding ends without a redirect loop: a navigation is
\* redirected at most twice, and the route it ends on is one the guard
\* allows in the state it ends in.
C27_NoRedirectLoop ==
  /\ nav.redirects <= 2
  /\ nav.pc = "done" => conditionalGuard(Front, nav.to).next = ""

\* A navigation has ended after a redirect, on a route that was not asked
\* for.
C27_Witness ==
  /\ nav.pc = "done" /\ nav.redirects = 1 /\ nav.to = "/dashboard"
  /\ store.isAuthenticated

\* A login or register request is answered in this step.
LoginOrRegisterAnswered ==
  \E r \in inflight : r.op \in {"login", "register"} /\ r \notin inflight'

\* C28: under every interleaving of the operations of the auth store, user
\* is non-null only if isAuthenticated is true, and a token or user data
\* that is not stored becomes stored only by the answer to a login or a
\* register.
C28_UserOnlyIfAuthenticated == (store.user # Null) => store.isAuthenticated

C28_StoredOnlyByLogin ==
  [][((localStorage.access_token = Null /\ localStorage'.access_token # Null)
        \/ (localStorage.user_data = Null /\ localStorage'.user_data # Null))
       => (LoginOrRegisterAnswered /\ store'.isAuthenticated)]_vars

C28_StoreConsistent == []C28_UserOnlyIfAuthenticated /\ C28_StoredOnlyByLogin

\* C29: getOrdersByStatus(s) returns only orders whose status equals s, and
\* getOrdersByDateRange(a, b) returns only orders whose createdAt lies
\* between a and b.
C29_OnlyMatchingOrders ==
  (pc = "done") =>
    /\ \A status \in OrderStatuses :
         (req.filters = << StatusFilter(status) >>) =>
           \A i \in 1..Len(result.data) : result.data[i].status = Num(status)
    /\ \A a \in OrderDates, b \in OrderDates :
         (req.filters = << DateRangeFilter(IsoDate(a[1], a[2]), IsoDate(b[1], b[2])) >>) =>
           \A i \in 1..Len(result.data) :
             LET createdAt == result.data[i].createdAt
             IN /\ createdAt.t = "date"
                /\ ToDate(IsoDate(a[1], a[2])).n <= createdAt.n
                /\ createdAt.n <= ToDate(IsoDate(b[1], b[2])).n

\* C30: applyPagination returns no records for a page number below 1: data
\* is empty and count is 0, while total and pageCount are those of the whole
\* array.
C30_NoRecordsBelowPageOne ==
  (pc = "done" /\ req.page <= 0) =>
    /\ result.data = <<>>
    /\ result.count = 0
    /\ result.total = Len(table)
    /\ result.pageCount = Ceil(Len(table), req.limit)

=============================================================================
